---- MODULE Spec2Model ----
(***************************************************************************)
(* NALT Protocol: the version migrator (NALTMigrator and the migration    *)
(* guides' step functions).                                                *)
(*                                                                         *)
(* A JSON object is a function from the keys it has to their values: a     *)
(* key that is absent is outside the DOMAIN.  The document's meta object   *)
(* is one heap object: every step copies the document shallowly           *)
(* ({ ...document }), so the copy and the caller's document share it.      *)
(* It is the variable meta; the top-level object and the entries, which    *)
(* the steps copy before they change them, are values.                     *)
(* A mood intensity is an integer number of thousandths (855 is 0.855).    *)
(***************************************************************************)
EXTENDS Integers, Sequences, FiniteSets, TLC

VARIABLES
    document,       \* the caller's document: its top-level object
    inputMeta,      \* the meta object as the caller passed it
    meta,           \* the meta object on the heap, now
    op,             \* the operation the caller invoked
    pc,             \* where that operation is: idle, loop, done, threw
    migratedDoc,    \* migrate: let migratedDoc
    migrationPath,  \* migrate: what is left of migrationPath
    calls,          \* the step functions invoked so far, each with the version it ran on
    result,         \* what the operation returned
    \* PDPBulkOperations.validateBatch
    documents,      \* validateBatch: the documents it is called with
    options,        \* validateBatch: {parallel, failFast}
    queue,          \* validateBatch: const queue
    workers,        \* validateBatch: each worker's position and the document it validates
    bulkResults,    \* validateBatch: const results
    bulkErrors,     \* validateBatch: const errors
    batchPromise,   \* validateBatch: the promise it returned to its caller
    \* PDPCache
    memoryCache,    \* this.memoryCache: the keys of the Map in insertion order
    diskCache,      \* the documents with a file under diskCachePath
    stats,          \* this.stats
    gets,           \* the get calls that have not returned yet, each at its await
    served,         \* the documents get has returned, in the order it returned them
    \* NALTBatchMigrator
    backup,         \* migrateDirectory: const backup
    batchSize,      \* migrateDirectory: const batchSize
    disk,           \* the files of the directory: content, and whether a .bak copy exists
    tasks,          \* each file's migrateFile call: its position and what migrate reported
    batchStats,     \* this.stats of the batch migrator
    batchStart      \* migrateDirectory: let i, the index of the running batch

migratorVars == <<document, inputMeta, meta, op, pc, migratedDoc, migrationPath, calls, result>>

bulkVars == <<documents, options, queue, workers, bulkResults, bulkErrors, batchPromise>>

cacheVars == <<memoryCache, diskCache, stats, gets, served>>

directoryVars == <<backup, batchSize, disk, tasks, batchStats, batchStart>>

otherVars == <<bulkVars, cacheVars, directoryVars>>

vars == <<migratorVars, otherVars>>

(***************************************************************************)
(* Bounds                                                                  *)
(***************************************************************************)
MaxEntries == 2

MaxDocuments == 3

MaxParallel == 2

MaxGets == 3

MaxFiles == 2

(***************************************************************************)
(* JSON objects                                                            *)
(***************************************************************************)
Has(o, k) == k \in DOMAIN o

Put(o, k, v) == [x \in (DOMAIN o) \cup {k} |-> IF x = k THEN v ELSE o[x]]

Del(o, k) == [x \in (DOMAIN o) \ {k} |-> o[x]]

\* if (o.k): the values the model gives to the keys that the code tests this
\* way (document_id, timestamp, signature, created_at, moods, x_moods,
\* timezone) are non-empty strings, objects and arrays, all of them truthy.
Truthy(o, k) == Has(o, k)

EmptyObject == [x \in {} |-> 0]

\* no batch validation, no cache and no batch migration is in use
NoBulk ==
    /\ documents = <<>>
    /\ options = EmptyObject
    /\ queue = <<>>
    /\ workers = <<>>
    /\ bulkResults = <<>>
    /\ bulkErrors = <<>>
    /\ batchPromise = "none"

NoCache ==
    /\ memoryCache = <<>>
    /\ diskCache = {}
    /\ stats = EmptyObject
    /\ gets = <<>>
    /\ served = <<>>

NoDirectory ==
    /\ backup = FALSE
    /\ batchSize = 0
    /\ disk = EmptyObject
    /\ tasks = EmptyObject
    /\ batchStats = EmptyObject
    /\ batchStart = 0

(***************************************************************************)
(* Versions                                                                *)
(***************************************************************************)
null == "null"

versions == <<"1.0.0", "1.1.0", "1.1.1", "1.2.0">>

targetVersion == "1.1.1"

SpecVersionStrings ==
    { "nalt-protocol/1.0.0", "nalt-protocol/1.1.0", "nalt-protocol/1.1.1",
      "nalt-protocol/1.2.0", "nalt-protocol/2.0.0", "nalt-protocol/draft" }

\* specVersion.match(/(\d+\.\d+\.\d+)/): the first x.y.z in the string, or null
extractVersion(specVersion) ==
    CASE specVersion = "nalt-protocol/1.0.0" -> "1.0.0"
      [] specVersion = "nalt-protocol/1.1.0" -> "1.1.0"
      [] specVersion = "nalt-protocol/1.1.1" -> "1.1.1"
      [] specVersion = "nalt-protocol/1.2.0" -> "1.2.0"
      [] specVersion = "nalt-protocol/2.0.0" -> "2.0.0"
      [] OTHER -> null

\* versions.indexOf(v), 1-based; 0 stands for -1
indexOf(v) ==
    IF \E i \in DOMAIN versions : versions[i] = v
    THEN CHOOSE i \in DOMAIN versions : versions[i] = v
    ELSE 0

getMigrationPath(from, to) ==
    LET fromIndex == indexOf(from)
        toIndex == indexOf(to)
    IN  IF fromIndex = 0 \/ toIndex = 0 \/ fromIndex >= toIndex
        THEN <<>>
        ELSE SubSeq(versions, fromIndex + 1, toIndex)

\* this.migrations: the step function filed under each version
migrations ==
    [v \in {"1.0.0", "1.1.0", "1.1.1", "1.2.0"} |->
        CASE v = "1.0.0" -> "migrateFrom_1_0_0"
          [] v = "1.1.0" -> "migrateFrom_1_1_0"
          [] v = "1.1.1" -> "migrateFrom_1_1_1"
          [] OTHER -> null]

(***************************************************************************)
(* The environment: the clock and the random source                        *)
(***************************************************************************)
\* what new Date().toISOString() can return
Times == {"2025-08-01T00:00:00.000Z", "2025-08-02T00:00:00.000Z"}

\* what generateUUID() can return
UUIDs == {"11111111-1111-4111-8111-111111111111", "22222222-2222-4222-8222-222222222222"}

\* calculateUTCOffset(date, timezone) for the dates and time zones of the
\* model: the offset in minutes, or null (NoOffset) when toLocaleString
\* rejects the zone
NoOffset == -1

calculateUTCOffset(date, timezone) ==
    CASE timezone = "UTC" -> 0
      [] timezone = "Asia/Tokyo" -> 540
      [] OTHER -> NoOffset

(***************************************************************************)
(* 1.0.0 -> 1.1.0                                                          *)
(***************************************************************************)
validTypes == {"text/plain", "text/markdown", "text/html", "application/json", "text/org"}

isValidMimeType(format) == format \in validTypes

\* formatMap[key]: null stands for undefined
formatMap(key) ==
    CASE key = "plain_text" -> "text/plain"
      [] key = "markdown" -> "text/markdown"
      [] key = "md" -> "text/markdown"
      [] key = "html" -> "text/html"
      [] key = "json" -> "application/json"
      [] key = "org" -> "text/org"
      [] OTHER -> null

\* the content_format branch of the entries.map callback
updateContentFormat(entry) ==
    LET format == IF Has(entry, "content_format") THEN entry.content_format ELSE "undefined"
    IN  IF formatMap(format) # null
        THEN Put(entry, "content_format", formatMap(format))
        ELSE IF ~isValidMimeType(format)
             THEN Put(entry, "content_format", "text/plain")
             ELSE entry

\* Math.round(intensity * 100) / 100, on thousandths
Round2(intensity) == ((intensity + 5) \div 10) * 10

\* entry[key].map(mood => ({ ...mood, intensity: Math.round(...) / 100 }))
roundMoods(entry, key) ==
    IF Truthy(entry, key)
    THEN Put(entry, key,
             [j \in DOMAIN entry[key] |->
                 Put(entry[key][j], "intensity", Round2(entry[key][j].intensity))])
    ELSE entry

\* What a step function makes: threw, or the document it returns, and the
\* heap's meta object after it.
Returned(doc, m) == [threw |-> FALSE, doc |-> doc, meta |-> m]

Threw(m) == [threw |-> TRUE, doc |-> EmptyObject, meta |-> m]

\* NALTMigrator.migrateFrom_1_0_0 of the v1.1.0 documentation
migrateFrom_1_0_0_v110(doc, m, now, uuid) ==
    LET d1 == Put(doc, "spec_version", "nalt-protocol/1.1.0")
        d2 == IF ~Truthy(d1, "document_id") THEN Put(d1, "document_id", uuid) ELSE d1
        d3 == IF ~Truthy(d2, "timestamp") THEN Put(d2, "timestamp", now) ELSE d2
    IN  IF ~Has(d3, "entries")
        THEN Threw(m)
        ELSE LET d4 == Put(d3, "entries",
                           [i \in DOMAIN d3.entries |->
                               roundMoods(updateContentFormat(d3.entries[i]), "moods")])
                 offset == IF Has(d4, "meta") /\ Truthy(m, "timezone")
                           THEN calculateUTCOffset(d4.date, m.timezone)
                           ELSE NoOffset
                 m2 == IF offset # NoOffset THEN Put(m, "x_utc_offset_minutes", offset) ELSE m
             IN  Returned(Put(d4, "x_migration",
                              [from_version |-> "1.0.0", to_version |-> "1.1.0",
                               migrated_at |-> now]),
                          m2)

\* NALTMigrator.migrateFrom_1_0_0 of the v1.2.0 documentation
migrateFrom_1_0_0(doc, m, now, uuid) ==
    LET d1 == Put(doc, "spec_version", "nalt-protocol/1.2.0")
        d2 == IF ~Truthy(d1, "document_id") THEN Put(d1, "document_id", uuid) ELSE d1
        d3 == IF ~Truthy(d2, "timestamp") THEN Put(d2, "timestamp", now) ELSE d2
    IN  IF ~Has(d3, "entries")
        THEN Threw(m)
        ELSE Returned(
                 Put(Put(d3, "entries",
                         [i \in DOMAIN d3.entries |->
                             roundMoods(updateContentFormat(d3.entries[i]), "x_moods")]),
                     "x_migration",
                     [from_version |-> "1.0.0", to_version |-> "1.2.0",
                      migrated_at |-> now]),
                 m)

(***************************************************************************)
(* 1.1.0 -> 1.1.1                                                          *)
(***************************************************************************)
\* the step as it would be if it stamped every entry, created_at or not
migrateFrom_1_1_0_to_1_1_1_stampsAll(doc) ==
    LET documentWithoutTimestamp == Put(Del(doc, "timestamp"), "spec_version", "nalt-protocol/1.1.1")
    IN  IF Truthy(doc, "timestamp") /\ Truthy(documentWithoutTimestamp, "entries")
        THEN Put(documentWithoutTimestamp, "entries",
                 [i \in DOMAIN documentWithoutTimestamp.entries |->
                     Put(documentWithoutTimestamp.entries[i], "created_at", doc.timestamp)])
        ELSE documentWithoutTimestamp

\* NALTMigrator.migrateFrom_1_1_0_to_1_1_1
migrateFrom_1_1_0_to_1_1_1(doc) ==
    LET documentWithoutTimestamp == Put(Del(doc, "timestamp"), "spec_version", "nalt-protocol/1.1.1")
    IN  IF Truthy(doc, "timestamp") /\ Truthy(documentWithoutTimestamp, "entries")
        THEN Put(documentWithoutTimestamp, "entries",
                 [i \in DOMAIN documentWithoutTimestamp.entries |->
                     LET entry == documentWithoutTimestamp.entries[i]
                     IN  IF ~Truthy(entry, "created_at")
                         THEN Put(entry, "created_at", doc.timestamp)
                         ELSE entry])
        ELSE documentWithoutTimestamp

\* migrateToV111 of the migration guide
migrateToV111(v110Document) ==
    LET migratedDoc0 == Put(Del(v110Document, "timestamp"), "spec_version", "nalt-protocol/1.1.1")
    IN  IF Truthy(v110Document, "timestamp") /\ Truthy(migratedDoc0, "entries")
        THEN Put(migratedDoc0, "entries",
                 [i \in DOMAIN migratedDoc0.entries |->
                     IF ~Truthy(migratedDoc0.entries[i], "created_at")
                     THEN Put(migratedDoc0.entries[i], "created_at", v110Document.timestamp)
                     ELSE migratedDoc0.entries[i]])
        ELSE migratedDoc0

(***************************************************************************)
(* 1.1.1 -> 1.2.0                                                          *)
(***************************************************************************)
fieldMappings ==
    << <<"summary", "x_summary">>, <<"moods", "x_moods">>, <<"tags", "x_tags">>,
       <<"entities", "x_entities">>, <<"end_date", "x_end_date">>,
       <<"created_at", "x_created_at">> >>

\* the turn as it would be if it copied the field and kept the old key
moveField_copies(newEntry, oldField, newField) ==
    IF Has(newEntry, oldField)
    THEN Put(newEntry, newField, newEntry[oldField])
    ELSE newEntry

\* the turn as it would be if it also removed x_relations and x_due_date,
\* which the migration guide lists among the removed entry fields
moveField_removesListed(newEntry, oldField, newField) ==
    LET moved == IF Has(newEntry, oldField)
                 THEN Del(Put(newEntry, newField, newEntry[oldField]), oldField)
                 ELSE newEntry
    IN  Del(Del(moved, "x_relations"), "x_due_date")

\* one turn of the forEach over fieldMappings
moveField(newEntry, oldField, newField) ==
    IF Has(newEntry, oldField)
    THEN Del(Put(newEntry, newField, newEntry[oldField]), oldField)
    ELSE newEntry

RECURSIVE moveFields(_, _)
moveFields(newEntry, i) ==
    IF i > Len(fieldMappings)
    THEN newEntry
    ELSE moveFields(moveField(newEntry, fieldMappings[i][1], fieldMappings[i][2]), i + 1)

\* the step as it would be if it kept a stamp the document already carries
migrateFrom_1_1_1_keepsStamp(doc, m, now) ==
    LET d1 == Put(doc, "spec_version", "nalt-protocol/1.2.0")
        d2 == IF Truthy(d1, "signature")
              THEN Del(Put(d1, "x_signature", d1.signature), "signature")
              ELSE d1
        hasOffset == Has(d2, "meta") /\ Has(m, "x_utc_offset_minutes")
        d3 == IF hasOffset THEN Put(d2, "x_utc_offset_minutes", m.x_utc_offset_minutes) ELSE d2
        m2 == IF hasOffset THEN Del(m, "x_utc_offset_minutes") ELSE m
        d4 == Put(d3, "entries", [i \in DOMAIN d3.entries |-> moveFields(d3.entries[i], 1)])
    IN  IF ~Has(d3, "entries")
        THEN Threw(m2)
        ELSE Returned(
                 IF Has(d4, "x_migration")
                 THEN d4
                 ELSE Put(d4, "x_migration",
                          [from_version |-> "1.1.1", to_version |-> "1.2.0",
                           migrated_at |-> now]),
                 m2)

\* NALTMigrator.migrateFrom_1_1_1
migrateFrom_1_1_1(doc, m, now) ==
    LET d1 == Put(doc, "spec_version", "nalt-protocol/1.2.0")
        d2 == IF Truthy(d1, "signature")
              THEN Del(Put(d1, "x_signature", d1.signature), "signature")
              ELSE d1
        hasOffset == Has(d2, "meta") /\ Has(m, "x_utc_offset_minutes")
        d3 == IF hasOffset THEN Put(d2, "x_utc_offset_minutes", m.x_utc_offset_minutes) ELSE d2
        m2 == IF hasOffset THEN Del(m, "x_utc_offset_minutes") ELSE m
    IN  IF ~Has(d3, "entries")
        THEN Threw(m2)
        ELSE Returned(
                 Put(Put(d3, "entries",
                         [i \in DOMAIN d3.entries |-> moveFields(d3.entries[i], 1)]),
                     "x_migration",
                     [from_version |-> "1.1.1", to_version |-> "1.2.0",
                      migrated_at |-> now]),
                 m2)

\* NALTMigrator.migrateFrom_1_1_0
migrateFrom_1_1_0(doc, m, now) ==
    migrateFrom_1_1_1(migrateFrom_1_1_0_to_1_1_1(doc), m, now)

\* migrator(migratedDoc) for the function filed under a name
invoke(fn, doc, m, now, uuid) ==
    CASE fn = "migrateFrom_1_0_0" -> migrateFrom_1_0_0(doc, m, now, uuid)
      [] fn = "migrateFrom_1_1_0" -> migrateFrom_1_1_0(doc, m, now)
      [] fn = "migrateFrom_1_1_1" -> migrateFrom_1_1_1(doc, m, now)

(***************************************************************************)
(* The class of the v1.1.0 documentation: its constructor binds            *)
(* this.migrateFrom_1_0_0 and this.migrateFrom_1_1_0, and the class        *)
(* defines these methods.  Binding a method the class lacks is             *)
(* undefined.bind(this), a TypeError.                                      *)
(***************************************************************************)
methods_v110 ==
    { "constructor", "migrate", "extractVersion", "getMigrationPath", "migrateFrom_1_0_0",
      "isValidMimeType", "generateUUID", "calculateUTCOffset" }

bound_v110 == {"migrateFrom_1_0_0", "migrateFrom_1_1_0"}

(***************************************************************************)
(* The documents a caller passes                                           *)
(***************************************************************************)
Signature ==
    [alg |-> "EdDSA", sig |-> "c2ln", public_key |-> "did:key:z6Mk"]

DocumentId == "550e8400-e29b-41d4-a716-446655440000"

Timestamp == "2025-01-15T15:30:00Z"

Metas ==
    { [language |-> "en", timezone |-> "UTC"],
      [language |-> "en", timezone |-> "Asia/Tokyo", x_utc_offset_minutes |-> 540,
       x_device |-> "phone"],
      [language |-> "ja", timezone |-> "Mars/Olympus", x_utc_offset_minutes |-> 0] }

EntryTemplates ==
    { [type |-> "event", mode |-> "morning", content_format |-> "plain_text",
       content |-> "hi"],
      [type |-> "reflection", mode |-> "evening", content_format |-> "text/markdown",
       content |-> "# day", summary |-> "",
       moods |-> <<[type |-> "happy", intensity |-> 855]>>,
       tags |-> <<"work">>, entities |-> [people |-> <<"Ann">>],
       end_date |-> "2025-01-16", created_at |-> "2025-01-15T20:00:00Z",
       x_relations |-> <<[type |-> "related_to", target_id |-> "e1"]>>,
       x_due_date |-> "2025-01-20"],
      [type |-> "task", mode |-> "none", content_format |-> "org-mode",
       content |-> "todo", summary |-> "s",
       x_moods |-> <<[type |-> "calm", intensity |-> 333]>>,
       x_due_date |-> "2025-02-01", x_color |-> "red"] }

EntryIds == <<"e1", "e2", "e3", "e4">>

EntryLists ==
    UNION { { [i \in 1..n |-> Put(f[i], "entry_id", EntryIds[i])] :
                f \in [1..n -> EntryTemplates] } : n \in 1..MaxEntries }

Optional(o, k, present, v) == IF present THEN Put(o, k, v) ELSE o

InputDocuments ==
    { Optional(Optional(Optional(
          [spec_version |-> sv, date |-> "2025-01-15", meta |-> "meta",
           entries |-> es, x_app |-> "diary"],
          "document_id", c[1], DocumentId),
          "timestamp", c[2], Timestamp),
          "signature", c[3], Signature) :
        sv \in SpecVersionStrings, es \in EntryLists,
        c \in BOOLEAN \X BOOLEAN \X BOOLEAN }

Init ==
    /\ document \in InputDocuments
    /\ inputMeta \in Metas
    /\ meta = inputMeta
    /\ op = "none"
    /\ pc = "idle"
    /\ migratedDoc = EmptyObject
    /\ migrationPath = <<>>
    /\ calls = <<>>
    /\ result = EmptyObject
    /\ NoBulk /\ NoCache /\ NoDirectory

(***************************************************************************)
(* NALTMigrator.migrate (v1.2.0 documentation)                             *)
(***************************************************************************)
\* migrate as it would be without the currentVersion === targetVersion test
migrate_start_noShortcut ==
    /\ pc = "idle"
    /\ op' = "migrate"
    /\ migratedDoc' = document
    /\ migrationPath' = getMigrationPath(extractVersion(document.spec_version), targetVersion)
    /\ pc' = "loop"
    /\ UNCHANGED <<document, inputMeta, meta, calls, result>>
    /\ UNCHANGED otherVars

migrate_start ==
    /\ pc = "idle"
    /\ op' = "migrate"
    /\ LET currentVersion == extractVersion(document.spec_version)
       IN  IF currentVersion = targetVersion
           THEN /\ result' = [document |-> document, migrated |-> FALSE]
                /\ pc' = "done"
                /\ UNCHANGED <<migratedDoc, migrationPath>>
           ELSE /\ migratedDoc' = document
                /\ migrationPath' = getMigrationPath(currentVersion, targetVersion)
                /\ pc' = "loop"
                /\ UNCHANGED result
    /\ UNCHANGED <<document, inputMeta, meta, calls>>
    /\ UNCHANGED otherVars

migrate_step ==
    /\ pc = "loop"
    /\ op = "migrate"
    /\ migrationPath # <<>>
    /\ LET migrator == migrations[Head(migrationPath)]
       IN  IF migrator # null
           THEN \E now \in Times, uuid \in UUIDs :
                   LET r == invoke(migrator, migratedDoc, meta, now, uuid)
                   IN  /\ calls' = Append(calls,
                                     [fn |-> migrator,
                                      on |-> extractVersion(migratedDoc.spec_version),
                                      at |-> now])
                       /\ meta' = r.meta
                       /\ IF r.threw
                          THEN /\ pc' = "threw"
                               /\ UNCHANGED <<migratedDoc, migrationPath>>
                          ELSE /\ migratedDoc' = r.doc
                               /\ migrationPath' = Tail(migrationPath)
                               /\ UNCHANGED pc
           ELSE /\ migrationPath' = Tail(migrationPath)
                /\ UNCHANGED <<meta, calls, migratedDoc, pc>>
    /\ UNCHANGED <<document, inputMeta, op, result>>
    /\ UNCHANGED otherVars

migrate_return ==
    /\ pc = "loop"
    /\ op = "migrate"
    /\ migrationPath = <<>>
    /\ result' = [document |-> migratedDoc, migrated |-> TRUE]
    /\ pc' = "done"
    /\ UNCHANGED <<document, inputMeta, meta, op, migratedDoc, migrationPath, calls>>
    /\ UNCHANGED otherVars

(***************************************************************************)
(* new NALTMigrator() (v1.1.0 documentation)                               *)
(***************************************************************************)
constructor_v110 ==
    /\ pc = "idle"
    /\ op' = "constructor_v110"
    /\ pc' = IF bound_v110 \subseteq methods_v110 THEN "done" ELSE "threw"
    /\ UNCHANGED <<document, inputMeta, meta, migratedDoc, migrationPath, calls, result>>
    /\ UNCHANGED otherVars

(***************************************************************************)
(* A caller applying the step functions itself, one version at a time:     *)
(* each to a document of the version the step is written for, the first    *)
(* to its own document and the next to what the step before returned (or,  *)
(* after an operation that returns no document, to its own document).      *)
(***************************************************************************)
current == IF pc = "idle" \/ ~Has(result, "document") THEN document ELSE result.document

CanCall(from) ==
    /\ \/ pc = "idle"
       \/ pc = "done" /\ op \notin {"migrate", "constructor_v110"}
    /\ extractVersion(current.spec_version) = from

Call(fn, from, r) ==
    /\ op' = fn
    /\ calls' = Append(calls, [fn |-> fn, on |-> from])
    /\ meta' = r.meta
    /\ IF r.threw
       THEN pc' = "threw" /\ UNCHANGED result
       ELSE pc' = "done" /\ result' = [document |-> r.doc]
    /\ UNCHANGED <<document, inputMeta, migratedDoc, migrationPath>>
    /\ UNCHANGED otherVars

call_migrateFrom_1_0_0_v110 ==
    /\ CanCall("1.0.0")
    /\ \E now \in Times, uuid \in UUIDs :
          Call("migrateFrom_1_0_0_v110", "1.0.0",
               migrateFrom_1_0_0_v110(current, meta, now, uuid))

call_migrateFrom_1_0_0 ==
    /\ CanCall("1.0.0")
    /\ \E now \in Times, uuid \in UUIDs :
          Call("migrateFrom_1_0_0", "1.0.0", migrateFrom_1_0_0(current, meta, now, uuid))

call_migrateFrom_1_1_0_to_1_1_1 ==
    /\ CanCall("1.1.0")
    /\ Call("migrateFrom_1_1_0_to_1_1_1", "1.1.0",
            Returned(migrateFrom_1_1_0_to_1_1_1(current), meta))

call_migrateToV111 ==
    /\ CanCall("1.1.0")
    /\ Call("migrateToV111", "1.1.0", Returned(migrateToV111(current), meta))

call_migrateFrom_1_1_0 ==
    /\ CanCall("1.1.0")
    /\ \E now \in Times :
          Call("migrateFrom_1_1_0", "1.1.0", migrateFrom_1_1_0(current, meta, now))

call_migrateFrom_1_1_1 ==
    /\ CanCall("1.1.1")
    /\ \E now \in Times :
          Call("migrateFrom_1_1_1", "1.1.1", migrateFrom_1_1_1(current, meta, now))

Next ==
    \/ migrate_start
    \/ migrate_step
    \/ migrate_return
    \/ constructor_v110
    \/ call_migrateFrom_1_0_0_v110
    \/ call_migrateFrom_1_0_0
    \/ call_migrateFrom_1_1_0_to_1_1_1
    \/ call_migrateToV111
    \/ call_migrateFrom_1_1_0
    \/ call_migrateFrom_1_1_1

Spec == Init /\ [][Next]_vars

(***************************************************************************)
(* The same operations on documents a caller may also pass: ones that      *)
(* lack the entries array, next to the ones that have it.                  *)
(***************************************************************************)
MalformedDocuments == { Del(d, "entries") : d \in InputDocuments }

InitMalformed ==
    /\ document \in InputDocuments \cup MalformedDocuments
    /\ inputMeta \in Metas
    /\ meta = inputMeta
    /\ op = "none"
    /\ pc = "idle"
    /\ migratedDoc = EmptyObject
    /\ migrationPath = <<>>
    /\ calls = <<>>
    /\ result = EmptyObject
    /\ NoBulk /\ NoCache /\ NoDirectory

SpecMalformed == InitMalformed /\ [][Next]_vars

(***************************************************************************)
(* The migration guide from v1.0.0 to v1.1.0: its JavaScript content_format*)
(* snippet and its Python script.  Both write into the object they are     *)
(* given: document is the caller's object and changes with it.             *)
(***************************************************************************)
\* formatMapping[key] of the guide's snippet: null stands for undefined
formatMapping(key) ==
    CASE key = "plain_text" -> "text/plain"
      [] key = "markdown" -> "text/markdown"
      [] key = "md" -> "text/markdown"
      [] key = "html" -> "text/html"
      [] key = "json" -> "application/json"
      [] key = "org" -> "text/org"
      [] OTHER -> null

\* entry.content_format = formatMapping[entry.content_format] || 'text/plain'
formatMapping_entry(entry) ==
    LET format == IF Has(entry, "content_format") THEN entry.content_format ELSE "undefined"
    IN  Put(entry, "content_format",
            IF formatMapping(format) # null THEN formatMapping(format) ELSE "text/plain")

\* format_map.get(key) of the Python script: null stands for None
format_map(key) ==
    CASE key = "plain_text" -> "text/plain"
      [] key = "markdown" -> "text/markdown"
      [] key = "md" -> "text/markdown"
      [] key = "html" -> "text/html"
      [] key = "json" -> "application/json"
      [] OTHER -> null

\* entry['content_format'] = format_map.get(old_format, 'text/plain') with
\* old_format = entry.get('content_format', 'plain_text')
format_map_entry(entry) ==
    LET old_format == IF Has(entry, "content_format") THEN entry.content_format
                      ELSE "plain_text"
    IN  Put(entry, "content_format",
            IF format_map(old_format) # null THEN format_map(old_format) ELSE "text/plain")

\* the thousandths ending in 5 whose double is above the decimal, or is it
\* and has an odd hundredth below: Python's round(x, 2) takes them up
roundsUp ==
    { 5, 25, 35, 55, 65, 85, 95, 115, 135, 165, 195, 225, 255, 265, 275, 315, 325, 335,
      375, 385, 395, 405, 445, 455, 465, 505, 515, 525, 535, 545, 555, 635, 645, 655,
      665, 675, 685, 755, 765, 775, 785, 795, 805, 875, 885, 895, 905, 915, 925, 935 }

\* round(mood['intensity'], 2), on thousandths
round_py(intensity) ==
    IF intensity % 10 = 5
    THEN (IF intensity \in roundsUp THEN intensity + 5 ELSE intensity - 5)
    ELSE ((intensity + 5) \div 10) * 10

\* what datetime.now().isoformat() + 'Z' can return
PyTimes == {"2025-08-01T09:00:00.123456Z"}

\* migrate_nalt_v1_0_to_v1_1(old_data): old_data after the call, which is
\* also what the call returns
migrate_nalt_v1_0_to_v1_1(old_data, now, uuid) ==
    LET d1 == Put(old_data, "spec_version", "nalt-protocol/1.1.0")
        d2 == IF ~Has(d1, "document_id") THEN Put(d1, "document_id", uuid) ELSE d1
        d3 == IF ~Has(d2, "timestamp") THEN Put(d2, "timestamp", now) ELSE d2
        rounded(entry) ==
            IF Has(entry, "moods")
            THEN Put(entry, "moods",
                     [j \in DOMAIN entry.moods |->
                         IF Has(entry.moods[j], "intensity")
                         THEN Put(entry.moods[j], "intensity",
                                  round_py(entry.moods[j].intensity))
                         ELSE entry.moods[j]])
            ELSE entry
    IN  IF Has(d3, "entries")
        THEN Put(d3, "entries",
                 [i \in DOMAIN d3.entries |-> rounded(format_map_entry(d3.entries[i]))])
        ELSE d3

\* the content_format values of v1.0.0 documents: the names the tables
\* know, the five MIME values, and one no table knows
LegacyFormats ==
    { "plain_text", "markdown", "md", "html", "json", "org",
      "text/plain", "text/markdown", "text/html", "application/json", "text/org", "rtf" }

LegacyEntries ==
    { [type |-> "event", mode |-> "morning", content_format |-> format, content |-> "hi"] :
        format \in LegacyFormats }
    \cup { [type |-> "reflection", mode |-> "evening", content_format |-> "markdown",
            content |-> "# day", moods |-> <<[type |-> "happy", intensity |-> 855]>>] }

LegacyEntryLists ==
    UNION { { [i \in 1..n |-> Put(f[i], "entry_id", EntryIds[i])] :
                f \in [1..n -> LegacyEntries] } : n \in 1..MaxEntries }

LegacyDocuments ==
    { Optional([spec_version |-> "nalt-protocol/1.0.0", date |-> "2025-01-15",
                meta |-> "meta", entries |-> es],
               "document_id", present, DocumentId) :
        es \in LegacyEntryLists, present \in BOOLEAN }

InitLegacy ==
    /\ document \in LegacyDocuments
    /\ inputMeta \in {[language |-> "en", timezone |-> "UTC"]}
    /\ meta = inputMeta
    /\ op = "none"
    /\ pc = "idle"
    /\ migratedDoc = EmptyObject
    /\ migrationPath = <<>>
    /\ calls = <<>>
    /\ result = EmptyObject
    /\ NoBulk /\ NoCache /\ NoDirectory

\* entries.forEach(entry => { entry.content_format = ... }) of the guide
formatMapping_forEach ==
    /\ pc = "idle"
    /\ op' = "formatMapping"
    /\ calls' = Append(calls, [fn |-> "formatMapping", on |-> "1.0.0"])
    /\ document' = Put(document, "entries",
                       [i \in DOMAIN document.entries |->
                           formatMapping_entry(document.entries[i])])
    /\ pc' = "done"
    /\ UNCHANGED <<inputMeta, meta, migratedDoc, migrationPath, result>>
    /\ UNCHANGED otherVars

\* new_data = migrate_nalt_v1_0_to_v1_1(old_data) of the guide
call_migrate_nalt_v1_0_to_v1_1 ==
    /\ pc = "idle"
    /\ op' = "migrate_nalt_v1_0_to_v1_1"
    /\ calls' = Append(calls, [fn |-> "migrate_nalt_v1_0_to_v1_1", on |-> "1.0.0"])
    /\ \E now \in PyTimes, uuid \in UUIDs :
          /\ document' = migrate_nalt_v1_0_to_v1_1(document, now, uuid)
          /\ result' = [document |-> document']
    /\ pc' = "done"
    /\ UNCHANGED <<inputMeta, meta, migratedDoc, migrationPath>>
    /\ UNCHANGED otherVars

NextLegacy ==
    \/ call_migrateFrom_1_0_0_v110
    \/ formatMapping_forEach
    \/ call_migrate_nalt_v1_0_to_v1_1

SpecLegacy == InitLegacy /\ [][NextLegacy]_vars

(***************************************************************************)
(* The migration script from v1.1.1 to v1.2.0 (Python) next to the step    *)
(* of NALTMigrator, on v1.1.1 documents.                                   *)
(***************************************************************************)
\* one turn of the loop over field_mappings.items()
popField(new_entry, old_field, new_field) ==
    IF Has(new_entry, old_field)
    THEN Del(Put(new_entry, new_field, new_entry[old_field]), old_field)
    ELSE new_entry

\* migrate_entry(entry); field_mappings lists the pairs of fieldMappings in
\* the same order
RECURSIVE migrate_entry(_, _)
migrate_entry(new_entry, i) ==
    IF i > Len(fieldMappings)
    THEN new_entry
    ELSE migrate_entry(popField(new_entry, fieldMappings[i][1], fieldMappings[i][2]), i + 1)

\* migrate_document(old_doc): old_doc.copy() is shallow, so the pop on
\* new_doc['meta'] is on the caller's meta object
migrate_document(old_doc, m, now) ==
    LET d1 == IF Has(old_doc, "signature")
              THEN Del(Put(old_doc, "x_signature", old_doc.signature), "signature")
              ELSE old_doc
        hasOffset == Has(d1, "meta") /\ Has(m, "x_utc_offset_minutes")
        d2 == IF hasOffset THEN Put(d1, "x_utc_offset_minutes", m.x_utc_offset_minutes) ELSE d1
        m2 == IF hasOffset THEN Del(m, "x_utc_offset_minutes") ELSE m
        entries == IF Has(d2, "entries") THEN d2.entries ELSE <<>>
        d3 == Put(d2, "entries", [i \in DOMAIN entries |-> migrate_entry(entries[i], 1)])
    IN  Returned(Put(Put(d3, "spec_version", "nalt-protocol/1.2.0"), "x_migrated_at", now),
                 m2)

call_migrate_document ==
    /\ CanCall("1.1.1")
    /\ \E now \in PyTimes :
          Call("migrate_document", "1.1.1", migrate_document(current, meta, now))

\* one turn of the forEach of the migrateEntry helper: it moves a field
\* only when the entry has it and has nothing under the new name
moveIfFree(entry, old, new_) ==
    IF Has(entry, old) /\ ~Has(entry, new_)
    THEN Del(Put(entry, new_, entry[old]), old)
    ELSE entry

\* migrateEntry(entry) of "Handling Legacy Fields in v1.2.0"; its
\* fieldMappings lists the same pairs in the same order
RECURSIVE migrateEntry(_, _)
migrateEntry(entry, i) ==
    IF i > Len(fieldMappings)
    THEN entry
    ELSE migrateEntry(moveIfFree(entry, fieldMappings[i][1], fieldMappings[i][2]), i + 1)

\* v1.1.1 documents that have a legacy field and, under its x_ name, a
\* value of their own as well
ClashEntries ==
    { [type |-> "event", mode |-> "morning", content_format |-> "text/plain",
       content |-> "hi"],
      [type |-> "reflection", mode |-> "evening", content_format |-> "text/markdown",
       content |-> "# day", summary |-> "s", x_summary |-> "my own summary"],
      [type |-> "task", mode |-> "none", content_format |-> "text/plain",
       content |-> "todo", tags |-> <<"work">>, x_tags |-> <<"home">>,
       x_due_date |-> "2025-02-01"] }

ClashEntryLists ==
    UNION { { [i \in 1..n |-> Put(f[i], "entry_id", EntryIds[i])] :
                f \in [1..n -> ClashEntries] } : n \in 1..MaxEntries }

ClashDocuments ==
    { Optional(Optional(Optional(
          [spec_version |-> "nalt-protocol/1.1.1", document_id |-> DocumentId,
           date |-> "2025-01-15", meta |-> "meta", entries |-> es],
          "signature", c[1], Signature),
          "x_signature", c[2], [alg |-> "ES256", sig |-> "b3du", public_key |-> "did:key:z6Mn"]),
          "x_utc_offset_minutes", c[3], 60) :
        es \in ClashEntryLists, c \in BOOLEAN \X BOOLEAN \X BOOLEAN }

InitRelocate ==
    /\ document \in { d \in InputDocuments : d.spec_version = "nalt-protocol/1.1.1" }
                       \cup ClashDocuments
    /\ inputMeta \in Metas
    /\ meta = inputMeta
    /\ op = "none"
    /\ pc = "idle"
    /\ migratedDoc = EmptyObject
    /\ migrationPath = <<>>
    /\ calls = <<>>
    /\ result = EmptyObject
    /\ NoBulk /\ NoCache /\ NoDirectory

\* an application calling migrateEntry(entry) on an entry of its document;
\* the helper writes into the entry and returns it
call_migrateEntry ==
    /\ pc = "idle"
    /\ op' = "migrateEntry"
    /\ \E i \in DOMAIN document.entries :
          /\ document' = Put(document, "entries",
                             [document.entries EXCEPT ![i] = migrateEntry(@, 1)])
          /\ result' = [entry |-> migrateEntry(document.entries[i], 1)]
          /\ calls' = Append(calls, [fn |-> "migrateEntry", on |-> "1.1.1", entry |-> i])
    /\ pc' = "done"
    /\ UNCHANGED <<inputMeta, meta, migratedDoc, migrationPath>>
    /\ UNCHANGED otherVars

NextRelocate ==
    \/ call_migrateFrom_1_1_1
    \/ call_migrate_document
    \/ call_migrateEntry

SpecRelocate == InitRelocate /\ [][NextRelocate]_vars

(***************************************************************************)
(* Validation.  An Ajv error is {instancePath, keyword, params}; the       *)
(* schemas are kept as the keywords that bear on the documents of the      *)
(* model.  Intensities are thousandths, as above.                          *)
(***************************************************************************)
MaxValidated == 2

AjvError(instancePath, keyword, params) ==
    [instancePath |-> instancePath, keyword |-> keyword, params |-> params]

\* the JSON-pointer token of the i-th element of an array
Idx(i) == ToString(i - 1)

RECURSIVE flatten(_)
flatten(seqs) == IF seqs = <<>> THEN <<>> ELSE Head(seqs) \o flatten(Tail(seqs))

\* the keys of an object of the model in the order a for-in loop visits them
keyOrder ==
    << "language", "timezone", "x_utc_offset_minutes", "x_device", "theme",
       "entry_id", "type", "mode", "content_format", "content", "end_date",
       "moods", "x_moods", "x_relations", "priority", "x_color" >>

\* the names the pattern ^x_ matches
matches_x_(key) ==
    key \in {"x_utc_offset_minutes", "x_device", "x_moods", "x_relations", "x_due_date",
             "x_color", "x_source", "x_weight", "x_app"}

\* the strings the pattern ^[a-z]{2}$ matches
matchesLanguage(value) == value \in {"en", "ja"}

\* the dates of the model in ascending order, all of them format "date"
Dates == <<"2025-01-14", "2025-01-15", "2025-01-16">>

formatDate(value) == \E i \in DOMAIN Dates : Dates[i] = value

\* a < b on two date strings
stringLess(a, b) ==
    \E i, j \in DOMAIN Dates : Dates[i] = a /\ Dates[j] = b /\ i < j

formatUUID(value) == value \in UUIDs \cup {DocumentId}

EntryType == {"event", "reflection", "task", "idea", "log"}

TimeMode == {"morning", "afternoon", "evening", "night", "none"}

ContentFormat == {"text/plain", "text/markdown", "text/html", "application/json", "text/org"}

RelationType == {"caused_by", "led_to", "related_to", "explains", "contradicts"}

validMoods ==
    { "happy", "excited", "peaceful", "content", "grateful", "calm", "hopeful", "proud",
      "motivated", "sad", "angry", "anxious", "frustrated", "tired", "confused", "lonely",
      "neutral", "curious", "nostalgic", "surprised" }

\* the hundredths between 0 and 1 whose quotient by 0.01 in IEEE-754 doubles
\* is not a whole number (0.07 / 0.01 is 7.000000000000001)
inexactQuotient == {70, 140, 280, 290, 470, 560, 570, 580, 590, 940}

\* Ajv's multipleOf 0.01: data / 0.01 === parseInt(data / 0.01)
multipleOf(intensity) == intensity % 10 = 0 /\ intensity \notin inexactQuotient

\* NALTValidator.loadSchema of the v1.2.0 documentation
loadSchema ==
    [ spec_version |-> "nalt-protocol/1.1.1",
      required |-> <<"spec_version", "document_id", "date", "meta", "entries">>,
      metaProperties |-> {"language", "timezone"},
      metaAdditional |-> TRUE,
      offsetBounded |-> FALSE,
      entryProperties |-> {"entry_id", "type", "mode", "created_at", "content_format",
                           "content", "summary", "moods", "tags", "entities", "end_date",
                           "x_relations", "x_due_date"},
      entryAdditional |-> TRUE,
      contentFormatEnum |-> TRUE,
      moodTypeEnum |-> FALSE,
      multipleOf |-> TRUE ]

\* the schema as it would be with content_format left a free string
loadSchema_v110_freeFormat ==
    [ spec_version |-> "nalt-protocol/1.1.0",
      required |-> <<"spec_version", "document_id", "date", "meta", "entries">>,
      metaProperties |-> {"language", "timezone", "x_utc_offset_minutes"},
      metaAdditional |-> TRUE,
      offsetBounded |-> TRUE,
      entryProperties |-> {"entry_id", "type", "mode", "content_format", "content",
                           "summary", "moods", "tags", "entities", "end_date",
                           "x_relations", "x_due_date"},
      entryAdditional |-> TRUE,
      contentFormatEnum |-> FALSE,
      moodTypeEnum |-> FALSE,
      multipleOf |-> TRUE ]

\* NALTValidator.loadSchema of the v1.1.0 documentation
loadSchema_v110 ==
    [ spec_version |-> "nalt-protocol/1.1.0",
      required |-> <<"spec_version", "document_id", "date", "meta", "entries">>,
      metaProperties |-> {"language", "timezone", "x_utc_offset_minutes"},
      metaAdditional |-> TRUE,
      offsetBounded |-> TRUE,
      entryProperties |-> {"entry_id", "type", "mode", "content_format", "content",
                           "summary", "moods", "tags", "entities", "end_date",
                           "x_relations", "x_due_date"},
      entryAdditional |-> TRUE,
      contentFormatEnum |-> TRUE,
      moodTypeEnum |-> FALSE,
      multipleOf |-> TRUE ]

\* the v1.0.0 schema as it would be with additionalProperties: true in meta
\* and in the entries, as the later schemas have it
schema_v100_lenient ==
    [ spec_version |-> "nalt-protocol/1.0.0",
      required |-> <<"spec_version", "date", "meta", "entries">>,
      metaProperties |-> {"language", "timezone"},
      metaAdditional |-> TRUE,
      offsetBounded |-> FALSE,
      entryProperties |-> {"entry_id", "type", "mode", "content_format", "content",
                           "summary", "moods", "tags", "entities", "x_due_date",
                           "x_relations"},
      entryAdditional |-> TRUE,
      contentFormatEnum |-> FALSE,
      moodTypeEnum |-> TRUE,
      multipleOf |-> FALSE ]

\* schema/v1.0.0/schema.json
schema_v100 ==
    [ spec_version |-> "nalt-protocol/1.0.0",
      required |-> <<"spec_version", "date", "meta", "entries">>,
      metaProperties |-> {"language", "timezone"},
      metaAdditional |-> FALSE,
      offsetBounded |-> FALSE,
      entryProperties |-> {"entry_id", "type", "mode", "content_format", "content",
                           "summary", "moods", "tags", "entities", "x_due_date",
                           "x_relations"},
      entryAdditional |-> FALSE,
      contentFormatEnum |-> FALSE,
      moodTypeEnum |-> TRUE,
      multipleOf |-> FALSE ]

\* schema/v1.1.1/schema.json
schema_v111 ==
    [ spec_version |-> "nalt-protocol/1.1.1",
      required |-> <<"spec_version", "document_id", "date", "meta", "entries">>,
      metaProperties |-> {"language", "timezone", "x_utc_offset_minutes"},
      metaAdditional |-> TRUE,
      offsetBounded |-> FALSE,
      entryProperties |-> {"entry_id", "type", "mode", "content_format", "content",
                           "end_date", "summary", "moods", "tags", "entities",
                           "created_at", "x_due_date", "x_relations"},
      entryAdditional |-> TRUE,
      contentFormatEnum |-> TRUE,
      moodTypeEnum |-> TRUE,
      multipleOf |-> TRUE ]

\* schema/v1.2.0/schema.json
schema_v120 ==
    [ spec_version |-> "nalt-protocol/1.2.0",
      required |-> <<"spec_version", "document_id", "date", "meta", "entries">>,
      metaProperties |-> {"language", "timezone"},
      metaAdditional |-> TRUE,
      offsetBounded |-> FALSE,
      entryProperties |-> {"entry_id", "type", "mode", "content_format", "content"},
      entryAdditional |-> TRUE,
      contentFormatEnum |-> TRUE,
      moodTypeEnum |-> FALSE,
      multipleOf |-> FALSE ]

\* the schema files under schema/<version>/schema.json; the one of v1.1.0 is
\* the schema the v1.1.0 documentation gives in NALTValidator.loadSchema
schemaFile(version) ==
    CASE version = "v1.0.0" -> schema_v100
      [] version = "v1.1.0" -> loadSchema_v110
      [] version = "v1.1.1" -> schema_v111
      [] version = "v1.2.0" -> schema_v120

SchemaFiles == {"v1.0.0", "v1.1.0", "v1.1.1", "v1.2.0"}

\* keyword required: one error for each listed property the object lacks
requiredErrors(at, object, required) ==
    LET missing == SelectSeq(required, LAMBDA key : ~Has(object, key))
    IN  [n \in DOMAIN missing |-> AjvError(at, "required", missing[n])]

\* keyword additionalProperties: false, next to properties and
\* patternProperties ^x_
additionalErrors(at, object, properties) ==
    LET extra == SelectSeq(keyOrder, LAMBDA key :
                     Has(object, key) /\ key \notin properties /\ ~matches_x_(key))
    IN  [n \in DOMAIN extra |-> AjvError(at, "additionalProperties", extra[n])]

\* keyword enum on a property the object has
enumErrors(at, object, key, allowed) ==
    IF Has(object, key) /\ object[key] \notin allowed
    THEN <<AjvError(at \o "/" \o key, "enum", key)>>
    ELSE <<>>

\* keyword format: date on a property the object has
dateErrors(at, object, key) ==
    IF Has(object, key) /\ ~formatDate(object[key])
    THEN <<AjvError(at \o "/" \o key, "format", "date")>>
    ELSE <<>>

moodErrors(schema, mood, at) ==
    requiredErrors(at, mood, <<"type", "intensity">>)
    \o (IF schema.moodTypeEnum THEN enumErrors(at, mood, "type", validMoods) ELSE <<>>)
    \o (IF Has(mood, "intensity") /\ mood.intensity > 1000
        THEN <<AjvError(at \o "/intensity", "maximum", "1")>> ELSE <<>>)
    \o (IF Has(mood, "intensity") /\ mood.intensity < 0
        THEN <<AjvError(at \o "/intensity", "minimum", "0")>> ELSE <<>>)
    \o (IF schema.multipleOf /\ Has(mood, "intensity") /\ ~multipleOf(mood.intensity)
        THEN <<AjvError(at \o "/intensity", "multipleOf", "0.01")>> ELSE <<>>)

relationErrors(relation, at) ==
    requiredErrors(at, relation, <<"type", "target_id">>)
    \o enumErrors(at, relation, "type", RelationType)

entryErrors(schema, entry, at) ==
    requiredErrors(at, entry, <<"entry_id", "type", "mode", "content_format", "content">>)
    \o (IF schema.entryAdditional THEN <<>>
        ELSE additionalErrors(at, entry, schema.entryProperties))
    \o enumErrors(at, entry, "type", EntryType)
    \o enumErrors(at, entry, "mode", TimeMode)
    \o (IF schema.contentFormatEnum
        THEN enumErrors(at, entry, "content_format", ContentFormat) ELSE <<>>)
    \o (IF "end_date" \in schema.entryProperties THEN dateErrors(at, entry, "end_date")
        ELSE <<>>)
    \o (IF "moods" \in schema.entryProperties /\ Has(entry, "moods")
        THEN flatten([j \in DOMAIN entry.moods |->
                         moodErrors(schema, entry.moods[j], at \o "/moods/" \o Idx(j))])
        ELSE <<>>)
    \o (IF "x_relations" \in schema.entryProperties /\ Has(entry, "x_relations")
        THEN flatten([j \in DOMAIN entry.x_relations |->
                         relationErrors(entry.x_relations[j],
                                        at \o "/x_relations/" \o Idx(j))])
        ELSE <<>>)

metaErrors(schema, m) ==
    requiredErrors("/meta", m, <<"language", "timezone">>)
    \o (IF schema.metaAdditional THEN <<>>
        ELSE additionalErrors("/meta", m, schema.metaProperties))
    \o (IF Has(m, "language") /\ ~matchesLanguage(m.language)
        THEN <<AjvError("/meta/language", "pattern", "^[a-z]{2}$")>> ELSE <<>>)
    \o (IF schema.offsetBounded /\ Has(m, "x_utc_offset_minutes")
           /\ m.x_utc_offset_minutes > 840
        THEN <<AjvError("/meta/x_utc_offset_minutes", "maximum", "840")>> ELSE <<>>)
    \o (IF schema.offsetBounded /\ Has(m, "x_utc_offset_minutes")
           /\ m.x_utc_offset_minutes < -720
        THEN <<AjvError("/meta/x_utc_offset_minutes", "minimum", "-720")>> ELSE <<>>)

\* every error of the document against the schema, as Ajv collects them
\* with allErrors
ajvErrors(schema, doc, m) ==
    requiredErrors("", doc, schema.required)
    \o (IF Has(doc, "spec_version") /\ doc.spec_version # schema.spec_version
        THEN <<AjvError("/spec_version", "pattern", schema.spec_version)>> ELSE <<>>)
    \o (IF Has(doc, "document_id") /\ ~formatUUID(doc.document_id)
        THEN <<AjvError("/document_id", "format", "uuid")>> ELSE <<>>)
    \o dateErrors("", doc, "date")
    \o (IF Has(doc, "meta") THEN metaErrors(schema, m) ELSE <<>>)
    \o (IF Has(doc, "entries")
        THEN (IF Len(doc.entries) < 1
              THEN <<AjvError("/entries", "minItems", "1")>> ELSE <<>>)
             \o flatten([i \in DOMAIN doc.entries |->
                            entryErrors(schema, doc.entries[i], "/entries/" \o Idx(i))])
        ELSE <<>>)

\* NALTValidator.customValidations
customValidations(doc) ==
    LET entryIds == { doc.entries[i].entry_id : i \in DOMAIN doc.entries }
        dangling(entry) ==
            SelectSeq(entry.x_relations, LAMBDA relation : relation.target_id \notin entryIds)
    IN  (IF Truthy(doc, "end_date") /\ stringLess(doc.end_date, doc.date)
         THEN <<[path |-> "/end_date",
                 message |-> "end_date must be after or equal to date"]>>
         ELSE <<>>)
        \o flatten([i \in DOMAIN doc.entries |->
               IF Truthy(doc.entries[i], "x_relations")
               THEN [n \in DOMAIN dangling(doc.entries[i]) |->
                        [path |-> "/entries/" \o doc.entries[i].entry_id \o "/x_relations",
                         message |-> "Invalid target_id reference: "
                                     \o dangling(doc.entries[i])[n].target_id]]
               ELSE <<>>])

\* NALTValidator.validate
validate(schema, doc, m) ==
    LET errors == ajvErrors(schema, doc, m)
    IN  IF errors # <<>>
        THEN [valid |-> FALSE, errors |-> errors]
        ELSE IF customValidations(doc) # <<>>
             THEN [valid |-> FALSE, errors |-> customValidations(doc)]
             ELSE [valid |-> TRUE]

\* checkStronglyRecommendedFields
checkStronglyRecommendedFields(data) ==
    LET imprecise(entry) ==
            SelectSeq(entry.moods, LAMBDA mood :
                Has(mood, "intensity") /\ mood.intensity # 0
                /\ mood.intensity # Round2(mood.intensity))
        unknown(entry) ==
            SelectSeq(entry.moods, LAMBDA mood :
                Truthy(mood, "type") /\ mood.type \notin validMoods)
        withMoods == IF Has(data, "entries")
                     THEN SelectSeq(data.entries, LAMBDA entry : Truthy(entry, "moods"))
                     ELSE <<>>
        withUnknown == SelectSeq(withMoods, LAMBDA entry : unknown(entry) # <<>>)
    IN  (IF Has(data, "entries")
         THEN flatten([i \in DOMAIN data.entries |->
                  IF Truthy(data.entries[i], "moods")
                  THEN [n \in DOMAIN imprecise(data.entries[i]) |->
                           "Mood intensity should use 0.01 precision (entry "
                           \o Idx(i) \o ")"]
                  ELSE <<>>])
         ELSE <<>>)
        \o (IF withUnknown # <<>>
            THEN [n \in DOMAIN unknown(withUnknown[1]) |->
                     "Mood type '" \o unknown(withUnknown[1])[n].type
                     \o "' is not in the list of 20 predefined mood types"]
            ELSE <<>>)
        \o (IF Truthy(data, "end_date") /\ Truthy(data, "date")
               /\ stringLess(data.end_date, data.date)
            THEN <<"end_date must be greater than or equal to date">>
            ELSE <<>>)

\* recommendedMoods of the v1.1.0 validator
recommendedMoods ==
    {"happy", "excited", "calm", "sad", "angry", "fearful", "anxious", "tired"}

\* checkStronglyRecommendedFields of the v1.1.0 validator
checkStronglyRecommendedFields_v110(data) ==
    LET imprecise(entry) ==
            SelectSeq(entry.moods, LAMBDA mood :
                Has(mood, "intensity") /\ mood.intensity # 0
                /\ mood.intensity # Round2(mood.intensity))
        other(entry) ==
            SelectSeq(entry.moods, LAMBDA mood :
                Truthy(mood, "type") /\ mood.type \notin recommendedMoods)
        withMoods == IF Has(data, "entries")
                     THEN SelectSeq(data.entries, LAMBDA entry : Truthy(entry, "moods"))
                     ELSE <<>>
        withOther == SelectSeq(withMoods, LAMBDA entry : other(entry) # <<>>)
    IN  (IF ~Truthy(data, "timestamp")
         THEN <<"'timestamp' field is strongly recommended but missing">>
         ELSE <<>>)
        \o (IF Has(data, "entries")
            THEN flatten([i \in DOMAIN data.entries |->
                     IF Truthy(data.entries[i], "moods")
                     THEN [n \in DOMAIN imprecise(data.entries[i]) |->
                              "Mood intensity should use 0.01 precision (entry "
                              \o Idx(i) \o ")"]
                     ELSE <<>>])
            ELSE <<>>)
        \o (IF withOther # <<>>
            THEN [n \in DOMAIN other(withOther[1]) |->
                     "Mood type '" \o other(withOther[1])[n].type
                     \o "' is not in recommended list"]
            ELSE <<>>)
        \o (IF Truthy(data, "end_date") /\ Truthy(data, "date")
               /\ stringLess(data.end_date, data.date)
            THEN <<"end_date must be greater than or equal to date">>
            ELSE <<>>)

(***************************************************************************)
(* The documents handed to the validators.  An entry carries its own       *)
(* entry_id, so a document that lists an entry twice has a duplicate id.   *)
(***************************************************************************)
ValidatedEntries ==
    { [entry_id |-> "e1", type |-> "event", mode |-> "morning",
       content_format |-> "text/plain", content |-> "hi"],
      [entry_id |-> "e2", type |-> "task", mode |-> "none",
       content_format |-> "plain_text", content |-> "todo"],
      [entry_id |-> "e3", type |-> "note", mode |-> "evening",
       content_format |-> "text/markdown", content |-> "# day"],
      [entry_id |-> "e4", type |-> "reflection", mode |-> "night",
       content_format |-> "text/html", content |-> "<p>",
       x_relations |-> <<[type |-> "related_to", target_id |-> "e1"]>>],
      [entry_id |-> "e5", type |-> "idea", mode |-> "afternoon",
       content_format |-> "application/json", content |-> "{}",
       x_relations |-> <<[type |-> "caused_by", target_id |-> "e1"],
                         [type |-> "explains", target_id |-> "e0"]>>],
      [entry_id |-> "e6", type |-> "log", mode |-> "none",
       content_format |-> "text/org", content |-> "* log", end_date |-> "2025-01-14"],
      [entry_id |-> "e7", type |-> "reflection", mode |-> "evening",
       content_format |-> "text/plain", content |-> "Feeling good",
       end_date |-> "2025-01-16",
       moods |-> <<[type |-> "happy", intensity |-> 850],
                   [type |-> "calm", intensity |-> 500],
                   [type |-> "sad", intensity |-> 0],
                   [type |-> "proud", intensity |-> 1000]>>],
      [entry_id |-> "e8", type |-> "reflection", mode |-> "evening",
       content_format |-> "text/plain", content |-> "Feeling odd",
       moods |-> <<[type |-> "happy", intensity |-> 855],
                   [type |-> "sad", intensity |-> 1001],
                   [type |-> "angry", intensity |-> 1010],
                   [type |-> "tired", intensity |-> -10]>>],
      [entry_id |-> "e9", type |-> "reflection", mode |-> "morning",
       content_format |-> "text/plain", content |-> "Calm",
       moods |-> <<[type |-> "calm", intensity |-> 70]>>],
      [entry_id |-> "e10", type |-> "reflection", mode |-> "evening",
       content_format |-> "text/plain", content |-> "Feeling good",
       x_moods |-> <<[type |-> "happy", intensity |-> 850],
                     [type |-> "calm", intensity |-> 500]>>] }

ValidatedEntryLists ==
    UNION { [1..n -> ValidatedEntries] : n \in 0..MaxValidated }

ValidatedMetas ==
    { [language |-> "en", timezone |-> "UTC", x_utc_offset_minutes |-> 0],
      [language |-> "english", timezone |-> "UTC"] }

ValidatedDocuments ==
    { Optional(Optional(
          [spec_version |-> sv, date |-> "2025-01-15", meta |-> "meta", entries |-> es],
          "document_id", c[1], DocumentId),
          "end_date", c[2], "2025-01-14") :
        sv \in {"nalt-protocol/1.0.0", "nalt-protocol/1.1.0", "nalt-protocol/1.1.1",
                "nalt-protocol/1.2.0"},
        es \in ValidatedEntryLists, c \in BOOLEAN \X BOOLEAN }

InitValidate ==
    /\ document \in ValidatedDocuments
    /\ inputMeta \in ValidatedMetas
    /\ meta = inputMeta
    /\ op = "none"
    /\ pc = "idle"
    /\ migratedDoc = EmptyObject
    /\ migrationPath = <<>>
    /\ calls = <<>>
    /\ result = EmptyObject
    /\ NoBulk /\ NoCache /\ NoDirectory

\* new NALTValidator().validate(document), v1.2.0 documentation
call_validate ==
    /\ pc = "idle"
    /\ op' = "validate"
    /\ result' = validate(loadSchema, document, meta)
    /\ pc' = "done"
    /\ UNCHANGED <<document, inputMeta, meta, migratedDoc, migrationPath, calls>>
    /\ UNCHANGED otherVars

\* new NALTValidator().validate(document), v1.1.0 documentation
call_validate_v110 ==
    /\ pc = "idle"
    /\ op' = "validate_v110"
    /\ result' = validate(loadSchema_v110, document, meta)
    /\ pc' = "done"
    /\ UNCHANGED <<document, inputMeta, meta, migratedDoc, migrationPath, calls>>
    /\ UNCHANGED otherVars

\* validateNALTProtocol(filePath, version, checkWarnings): Ajv without
\* allErrors stops at the first error its generated code meets (required
\* before properties, properties in the schema's order, array items in
\* order); process.exit(1) after it has printed validate.errors
validateNALTProtocol ==
    /\ pc = "idle"
    /\ op' = "validateNALTProtocol"
    /\ \E version \in SchemaFiles, checkWarnings \in BOOLEAN :
          LET errors == ajvErrors(schemaFile(version), document, meta)
          IN  /\ calls' = <<[fn |-> "validateNALTProtocol", version |-> version,
                             checkWarnings |-> checkWarnings]>>
              /\ IF errors = <<>>
                 THEN /\ result' = [valid |-> TRUE,
                                    warnings |->
                                        IF checkWarnings /\ version \in {"v1.1.0", "v1.1.1"}
                                        THEN checkStronglyRecommendedFields(document)
                                        ELSE <<>>]
                      /\ pc' = "done"
                 ELSE /\ result' = [valid |-> FALSE, errors |-> <<Head(errors)>>]
                      /\ pc' = "exit"
    /\ UNCHANGED <<document, inputMeta, meta, migratedDoc, migrationPath>>
    /\ UNCHANGED otherVars

\* validateNALTProtocol(filePath, version, checkWarnings) of the v1.1.0
\* validator: its warnings are for version v1.1.0 alone
validateNALTProtocol_v110 ==
    /\ pc = "idle"
    /\ op' = "validateNALTProtocol_v110"
    /\ \E version \in SchemaFiles, checkWarnings \in BOOLEAN :
          LET errors == ajvErrors(schemaFile(version), document, meta)
          IN  /\ calls' = <<[fn |-> "validateNALTProtocol_v110", version |-> version,
                             checkWarnings |-> checkWarnings]>>
              /\ IF errors = <<>>
                 THEN /\ result' = [valid |-> TRUE,
                                    warnings |->
                                        IF checkWarnings /\ version = "v1.1.0"
                                        THEN checkStronglyRecommendedFields_v110(document)
                                        ELSE <<>>]
                      /\ pc' = "done"
                 ELSE /\ result' = [valid |-> FALSE, errors |-> <<Head(errors)>>]
                      /\ pc' = "exit"
    /\ UNCHANGED <<document, inputMeta, meta, migratedDoc, migrationPath>>
    /\ UNCHANGED otherVars

\* validatePersonalProtocol(filePath) of tools/validator/nodejs/validator.js
validatePersonalProtocol ==
    /\ pc = "idle"
    /\ op' = "validatePersonalProtocol"
    /\ LET errors == ajvErrors(schema_v100, document, meta)
       IN  IF errors = <<>>
           THEN /\ result' = [valid |-> TRUE]
                /\ pc' = "done"
           ELSE /\ result' = [valid |-> FALSE, errors |-> <<Head(errors)>>]
                /\ pc' = "exit"
    /\ UNCHANGED <<document, inputMeta, meta, migratedDoc, migrationPath, calls>>
    /\ UNCHANGED otherVars

NextValidate ==
    \/ call_validate
    \/ call_validate_v110
    \/ validateNALTProtocol
    \/ validateNALTProtocol_v110
    \/ validatePersonalProtocol

SpecValidate == InitValidate /\ [][NextValidate]_vars

(***************************************************************************)
(* The validators on documents that carry fields the schemas do not name,  *)
(* with and without the x_ prefix, at the document, in meta, in an entry,  *)
(* in a mood and in a relation; and moods the advisory pass is about.      *)
(***************************************************************************)
AnnotatedEntries ==
    { [entry_id |-> "e1", type |-> "event", mode |-> "morning",
       content_format |-> "text/plain", content |-> "hi"],
      [entry_id |-> "e2", type |-> "task", mode |-> "none",
       content_format |-> "text/plain", content |-> "todo", priority |-> "high"],
      [entry_id |-> "e3", type |-> "idea", mode |-> "afternoon",
       content_format |-> "text/markdown", content |-> "# idea", x_color |-> "red"],
      [entry_id |-> "e4", type |-> "reflection", mode |-> "night",
       content_format |-> "text/plain", content |-> "Feeling good",
       moods |-> <<[type |-> "happy", intensity |-> 850, x_source |-> "self"]>>,
       x_relations |-> <<[type |-> "related_to", target_id |-> "e1", x_weight |-> "1"]>>],
      [entry_id |-> "e5", type |-> "log", mode |-> "none",
       content_format |-> "text/org", content |-> "* log", end_date |-> "2025-01-16"],
      [entry_id |-> "e6", type |-> "reflection", mode |-> "evening",
       content_format |-> "text/plain", content |-> "Uneasy",
       moods |-> <<[type |-> "fearful", intensity |-> 500]>>],
      [entry_id |-> "e7", type |-> "reflection", mode |-> "evening",
       content_format |-> "text/plain", content |-> "Quiet",
       moods |-> <<[type |-> "peaceful", intensity |-> 855]>>] }

AnnotatedEntryLists ==
    UNION { [1..n -> AnnotatedEntries] : n \in 0..MaxValidated }

AnnotatedMetas ==
    { [language |-> "en", timezone |-> "UTC"],
      [language |-> "en", timezone |-> "UTC", x_device |-> "phone"],
      [language |-> "ja", timezone |-> "Asia/Tokyo", theme |-> "dark"] }

AnnotatedDocuments ==
    { Optional(Optional(
          [spec_version |-> sv, document_id |-> DocumentId, date |-> "2025-01-15",
           meta |-> "meta", entries |-> es],
          "timestamp", c[1], Timestamp),
          "x_app", c[2], "diary") :
        sv \in {"nalt-protocol/1.0.0", "nalt-protocol/1.1.0", "nalt-protocol/1.1.1",
                "nalt-protocol/1.2.0"},
        es \in AnnotatedEntryLists, c \in BOOLEAN \X BOOLEAN }

InitAnnotated ==
    /\ document \in AnnotatedDocuments
    /\ inputMeta \in AnnotatedMetas
    /\ meta = inputMeta
    /\ op = "none"
    /\ pc = "idle"
    /\ migratedDoc = EmptyObject
    /\ migrationPath = <<>>
    /\ calls = <<>>
    /\ result = EmptyObject
    /\ NoBulk /\ NoCache /\ NoDirectory

SpecAnnotated == InitAnnotated /\ [][NextValidate]_vars

(***************************************************************************)
(* The step functions on documents that are valid at their own version:    *)
(* the documents of a pool that the schema of their spec_version accepts.  *)
(***************************************************************************)
schemaOf(doc) == schemaFile("v" \o extractVersion(doc.spec_version))

SoundMeta == [language |-> "en", timezone |-> "UTC"]

EntryPool ==
    { [type |-> "event", mode |-> "morning", content_format |-> format, content |-> "hi"] :
        format \in {"plain_text", "text/plain", "rtf"} }
    \cup { [type |-> "reflection", mode |-> "evening", content_format |-> format,
            content |-> "# day", summary |-> "s",
            moods |-> <<[type |-> type, intensity |-> intensity]>>] :
            format \in {"markdown", "text/markdown"}, type \in {"happy", "fearful"},
            intensity \in {855, 70, 500} }
    \cup { [type |-> "task", mode |-> "none", content_format |-> "text/plain",
            content |-> "todo", tags |-> <<"work">>, end_date |-> "2025-01-16",
            created_at |-> "2025-01-15T20:00:00Z"] }

SoundDocuments ==
    { doc \in { Optional([spec_version |-> sv, date |-> "2025-01-15", meta |-> "meta",
                          entries |-> [i \in DOMAIN f |-> Put(f[i], "entry_id", EntryIds[i])]],
                         "document_id", present, DocumentId) :
                  sv \in {"nalt-protocol/1.0.0", "nalt-protocol/1.1.0", "nalt-protocol/1.1.1"},
                  f \in UNION { [1..n -> EntryPool] : n \in 1..MaxEntries },
                  present \in BOOLEAN } :
        ajvErrors(schemaOf(doc), doc, SoundMeta) = <<>> }

InitSteps ==
    /\ document \in SoundDocuments
    /\ inputMeta = SoundMeta
    /\ meta = inputMeta
    /\ op = "none"
    /\ pc = "idle"
    /\ migratedDoc = EmptyObject
    /\ migrationPath = <<>>
    /\ calls = <<>>
    /\ result = EmptyObject
    /\ NoBulk /\ NoCache /\ NoDirectory

NextSteps ==
    \/ call_migrateFrom_1_0_0_v110
    \/ call_migrateFrom_1_0_0
    \/ call_migrateFrom_1_1_0_to_1_1_1
    \/ call_migrateToV111
    \/ call_migrateFrom_1_1_0
    \/ call_migrateFrom_1_1_1

SpecSteps == InitSteps /\ [][NextSteps]_vars

(***************************************************************************)
(* PDPBulkOperations.validateBatch.  JavaScript runs a worker from one     *)
(* await to the next without interruption: a step of the model is one      *)
(* such run.  validateSingle(doc) resolves or throws; which of the two is  *)
(* the environment's choice.                                               *)
(***************************************************************************)
NoMigration ==
    /\ document = EmptyObject
    /\ inputMeta = EmptyObject
    /\ meta = EmptyObject
    /\ op = "none"
    /\ pc = "idle"
    /\ migratedDoc = EmptyObject
    /\ migrationPath = <<>>
    /\ calls = <<>>
    /\ result = EmptyObject

InitBulk ==
    /\ documents \in { [i \in 1..n |-> [document_id |-> i]] : n \in 0..MaxDocuments }
    /\ options \in [parallel : 1..MaxParallel, failFast : BOOLEAN]
    /\ queue = <<>>
    /\ workers = <<>>
    /\ bulkResults = <<>>
    /\ bulkErrors = <<>>
    /\ batchPromise = "none"
    /\ NoMigration /\ NoCache /\ NoDirectory

\* the while loop as it would be if it read the head of the queue and left
\* it there
whileLoop_noShift(q) ==
    IF Len(q) > 0
    THEN [worker |-> [pc |-> "validateSingle", doc |-> Head(q)], queue |-> q]
    ELSE [worker |-> [pc |-> "finished"], queue |-> q]

\* while (queue.length > 0) { const doc = queue.shift(); if (!doc) break;
\* ... await this.validateSingle(doc): the worker up to its next await, or
\* to its end, and the queue it leaves.  Every document is an object, so
\* !doc is false.
whileLoop(q) ==
    IF Len(q) > 0
    THEN [worker |-> [pc |-> "validateSingle", doc |-> Head(q)], queue |-> Tail(q)]
    ELSE [worker |-> [pc |-> "finished"], queue |-> q]

\* workers.push(worker()) for i = 0 .. parallel - 1: each call runs its
\* worker up to the first await
RECURSIVE startWorkers(_, _, _)
startWorkers(started, q, parallel) ==
    IF Len(started) = parallel
    THEN [workers |-> started, queue |-> q]
    ELSE startWorkers(Append(started, whileLoop(q).worker), whileLoop(q).queue, parallel)

\* validateBatch(documents, options) up to await Promise.all(workers)
validateBatch_call ==
    /\ batchPromise = "none"
    /\ LET started == startWorkers(<<>>, documents, options.parallel)
       IN  /\ workers' = started.workers
           /\ queue' = started.queue
    /\ batchPromise' = "pending"
    /\ UNCHANGED <<documents, options, bulkResults, bulkErrors>>
    /\ UNCHANGED <<migratorVars, cacheVars, directoryVars>>

\* a worker after its await: validateSingle has resolved or has thrown
worker_resume ==
    \E w \in DOMAIN workers :
        /\ workers[w].pc = "validateSingle"
        /\ \E resolved \in BOOLEAN :
              LET doc == workers[w].doc
                  next == whileLoop(queue)
              IN  IF resolved
                  THEN /\ bulkResults' = Append(bulkResults,
                                                [id |-> doc.document_id, valid |-> TRUE])
                       /\ workers' = [workers EXCEPT ![w] = next.worker]
                       /\ queue' = next.queue
                       /\ UNCHANGED <<bulkErrors, batchPromise>>
                  ELSE /\ bulkErrors' = Append(bulkErrors,
                                               [id |-> doc.document_id, valid |-> FALSE])
                       /\ IF options.failFast
                          THEN /\ workers' = [workers EXCEPT ![w] = [pc |-> "rejected"]]
                               /\ batchPromise' = IF batchPromise = "pending"
                                                   THEN "rejected" ELSE batchPromise
                               /\ UNCHANGED queue
                          ELSE /\ workers' = [workers EXCEPT ![w] = next.worker]
                               /\ queue' = next.queue
                               /\ UNCHANGED batchPromise
                       /\ UNCHANGED bulkResults
        /\ UNCHANGED <<documents, options>>
        /\ UNCHANGED <<migratorVars, cacheVars, directoryVars>>

\* after Promise.all(workers) has resolved: the return statement reads
\* startTime, which nothing declares
validateBatch_return ==
    /\ batchPromise = "pending"
    /\ \A w \in DOMAIN workers : workers[w].pc = "finished"
    /\ batchPromise' = "ReferenceError"
    /\ UNCHANGED <<documents, options, queue, workers, bulkResults, bulkErrors>>
    /\ UNCHANGED <<migratorVars, cacheVars, directoryVars>>

NextBulk ==
    \/ validateBatch_call
    \/ worker_resume
    \/ validateBatch_return

SpecBulk == InitBulk /\ [][NextBulk]_vars

(***************************************************************************)
(* PDPCache.  The memory cache is a Map: memoryCache is the sequence of    *)
(* its keys in insertion order (the value of a key is the document of      *)
(* that id).  served is the log of the ids whose document a get returned.  *)
(***************************************************************************)
memoryCacheSize == 100

\* the two oldest keys of a full cache and two ids that are not in it
CacheIds == {1, 2, memoryCacheSize + 1, memoryCacheSize + 2}

\* a cache just constructed, or one that has served the documents
\* 1 .. memoryCacheSize from the disk cache, in this order
InitCache ==
    /\ \E n \in {0, memoryCacheSize} :
          /\ memoryCache = [i \in 1..n |-> i]
          /\ served = [i \in 1..n |-> i]
          /\ diskCache = 1..n
          /\ stats = [hits |-> [memory |-> 0, disk |-> n, archive |-> 0], misses |-> 0]
    /\ gets = <<>>
    /\ NoMigration /\ NoBulk /\ NoDirectory

\* Map.delete of the first key when the cache is full, then Map.set, which
\* leaves a key that is already there at its place
addToMemoryCache(cache, id) ==
    LET kept == IF Len(cache) >= memoryCacheSize THEN Tail(cache) ELSE cache
    IN  IF \E n \in DOMAIN kept : kept[n] = id THEN kept ELSE Append(kept, id)

without_call(i) == [n \in 1..(Len(gets) - 1) |-> IF n < i THEN gets[n] ELSE gets[n + 1]]

\* get(documentId) up to its first await, or to its return on a memory hit
get_call ==
    \E documentId \in CacheIds :
        /\ Len(served) + stats.misses + Len(gets)
             < (IF Len(served) >= memoryCacheSize THEN memoryCacheSize ELSE 0) + MaxGets
        /\ IF \E n \in DOMAIN memoryCache : memoryCache[n] = documentId
           THEN /\ stats' = [stats EXCEPT !.hits.memory = @ + 1]
                /\ served' = Append(served, documentId)
                /\ UNCHANGED gets
           ELSE /\ gets' = Append(gets, [documentId |-> documentId, pc |-> "fileExists(diskPath)"])
                /\ UNCHANGED <<stats, served>>
        /\ UNCHANGED <<memoryCache, diskCache>>
        /\ UNCHANGED <<migratorVars, bulkVars, directoryVars>>

\* a call of get from one await to the next, or to its return; whether the
\* archive holds the document is the file system's answer
get_resume ==
    \E i \in DOMAIN gets :
        LET documentId == gets[i].documentId
            at(label) == [gets EXCEPT ![i].pc = label]
        IN  /\ CASE gets[i].pc = "fileExists(diskPath)" ->
                     IF documentId \in diskCache
                     THEN /\ stats' = [stats EXCEPT !.hits.disk = @ + 1]
                          /\ gets' = at("readFile")
                          /\ UNCHANGED <<memoryCache, diskCache, served>>
                     ELSE /\ gets' = at("fileExists(archivePath)")
                          /\ UNCHANGED <<memoryCache, diskCache, stats, served>>
                 [] gets[i].pc = "readFile" ->
                     /\ memoryCache' = addToMemoryCache(memoryCache, documentId)
                     /\ served' = Append(served, documentId)
                     /\ gets' = without_call(i)
                     /\ UNCHANGED <<diskCache, stats>>
                 [] gets[i].pc = "fileExists(archivePath)" ->
                     \E exists \in BOOLEAN :
                         IF exists
                         THEN /\ stats' = [stats EXCEPT !.hits.archive = @ + 1]
                              /\ gets' = at("readCompressed")
                              /\ UNCHANGED <<memoryCache, diskCache, served>>
                         ELSE /\ stats' = [stats EXCEPT !.misses = @ + 1]
                              /\ gets' = without_call(i)
                              /\ UNCHANGED <<memoryCache, diskCache, served>>
                 [] gets[i].pc = "readCompressed" ->
                     /\ gets' = at("writeToDisk")
                     /\ UNCHANGED <<memoryCache, diskCache, stats, served>>
                 [] gets[i].pc = "writeToDisk" ->
                     /\ diskCache' = diskCache \cup {documentId}
                     /\ memoryCache' = addToMemoryCache(memoryCache, documentId)
                     /\ served' = Append(served, documentId)
                     /\ gets' = without_call(i)
                     /\ UNCHANGED stats
            /\ UNCHANGED <<migratorVars, bulkVars, directoryVars>>

NextCache ==
    \/ get_call
    \/ get_resume

SpecCache == InitCache /\ [][NextCache]_vars

(***************************************************************************)
(* NALTBatchMigrator.  The files of the directory are 1 .. n; disk[f] is   *)
(* what the path of file f and the path f.bak hold.  What a file holds     *)
(* decides what JSON.parse and migrator.migrate do with it; whether a      *)
(* file system call succeeds is the file system's choice.                  *)
(***************************************************************************)
FileContents == {"outdated document", "latest document", "not JSON", "unknown version"}

\* options.batchSize || 10, for batches of one file, of two, and the default
BatchSizes == {1, 2, 10}

InitDirectory ==
    /\ backup \in BOOLEAN
    /\ batchSize \in BatchSizes
    /\ \E n \in 1..MaxFiles :
          disk \in [1..n -> [content : FileContents, bak : {"none"}]]
    /\ tasks = EmptyObject
    /\ batchStats = [total |-> 0, migrated |-> 0, failed |-> 0, errors |-> <<>>]
    /\ batchStart = 0
    /\ NoMigration /\ NoBulk /\ NoCache

\* batch.map(file => this.migrateFile(file, backup)): every call of the
\* batch runs to its first await
startBatch(i) ==
    [f \in DOMAIN disk |->
        IF i < f /\ f <= i + batchSize
        THEN [pc |-> "readFile"]
        ELSE IF tasks = EmptyObject THEN [pc |-> "waiting"] ELSE tasks[f]]

\* migrateFile after migrate, as it would be if it never made the copy
afterMigrate_noCopy(changed) ==
    IF changed THEN "writeFile" ELSE "returned"

\* if (changed) { if (backup) { await fs.copyFile ... } await fs.writeFile
afterMigrate(changed) ==
    IF changed
    THEN IF backup THEN "copyFile" ELSE "writeFile"
    ELSE "returned"

\* migrateDirectory up to the first await Promise.all
migrateDirectory_call ==
    /\ tasks = EmptyObject
    /\ batchStats' = [batchStats EXCEPT !.total = Len(disk)]
    /\ tasks' = startBatch(0)
    /\ UNCHANGED <<backup, batchSize, disk, batchStart>>
    /\ UNCHANGED <<migratorVars, bulkVars, cacheVars>>

\* one call of migrateFile from one await to the next, or to its end
migrateFile_resume ==
    \E filePath \in DOMAIN tasks :
        LET at(label) == [tasks EXCEPT ![filePath].pc = label]
            catch(message) ==
                /\ batchStats' = [batchStats EXCEPT
                                     !.failed = @ + 1,
                                     !.errors = Append(@, [file |-> filePath, error |-> message])]
                /\ tasks' = at("caught")
            content == disk[filePath].content
        IN  /\ tasks[filePath].pc \in {"readFile", "migrate", "copyFile", "writeFile"}
            /\ CASE tasks[filePath].pc = "readFile" ->
                     /\ \E read \in BOOLEAN :
                           IF ~read THEN catch("readFile")
                           ELSE IF content = "not JSON" THEN catch("JSON.parse")
                           ELSE /\ tasks' = [tasks EXCEPT ![filePath] =
                                                [pc |-> "migrate", content |-> content]]
                                /\ UNCHANGED batchStats
                     /\ UNCHANGED disk
                 [] tasks[filePath].pc = "migrate" ->
                     /\ IF tasks[filePath].content = "unknown version"
                        THEN catch("migrate")
                        ELSE LET changed == tasks[filePath].content = "outdated document"
                             IN  /\ tasks' = [tasks EXCEPT ![filePath] =
                                                 [pc |-> afterMigrate(changed),
                                                  content |-> @.content,
                                                  changed |-> changed]]
                                 /\ UNCHANGED batchStats
                     /\ UNCHANGED disk
                 [] tasks[filePath].pc = "copyFile" ->
                     \E copied \in BOOLEAN :
                         IF copied
                         THEN /\ disk' = [disk EXCEPT ![filePath].bak = content]
                              /\ tasks' = at("writeFile")
                              /\ UNCHANGED batchStats
                         ELSE /\ catch("copyFile")
                              /\ UNCHANGED disk
                 [] tasks[filePath].pc = "writeFile" ->
                     \E written \in BOOLEAN :
                         IF written
                         THEN /\ disk' = [disk EXCEPT ![filePath].content = "migrated document"]
                              /\ batchStats' = [batchStats EXCEPT !.migrated = @ + 1]
                              /\ tasks' = at("returned")
                         ELSE /\ catch("writeFile")
                              /\ \E left \in {content, "part of the migrated document"} :
                                    disk' = [disk EXCEPT ![filePath].content = left]
            /\ UNCHANGED <<backup, batchSize, batchStart>>
            /\ UNCHANGED <<migratorVars, bulkVars, cacheVars>>

\* migrateDirectory after await Promise.all: i += batchSize, and the next
\* batch or the return of this.stats
migrateDirectory_resume ==
    /\ tasks # EmptyObject
    /\ batchStart < Len(disk)
    /\ \A f \in DOMAIN tasks :
          (batchStart < f /\ f <= batchStart + batchSize)
             => tasks[f].pc \in {"returned", "caught"}
    /\ batchStart' = batchStart + batchSize
    /\ tasks' = startBatch(batchStart + batchSize)
    /\ UNCHANGED <<backup, batchSize, disk, batchStats>>
    /\ UNCHANGED <<migratorVars, bulkVars, cacheVars>>

NextDirectory ==
    \/ migrateDirectory_call
    \/ migrateFile_resume
    \/ migrateDirectory_resume

SpecDirectory == InitDirectory /\ [][NextDirectory]_vars

(***************************************************************************)
(* Claims                                                                  *)
(***************************************************************************)
sourceVersion == extractVersion(document.spec_version)

migrateReturned == op = "migrate" /\ pc = "done"

\* the version a step function is written for, by its name
stepSource(fn) ==
    CASE fn \in {"migrateFrom_1_0_0", "migrateFrom_1_0_0_v110"} -> "1.0.0"
      [] fn \in {"migrateFrom_1_1_0", "migrateFrom_1_1_0_to_1_1_1", "migrateToV111"} -> "1.1.0"
      [] fn = "migrateFrom_1_1_1" -> "1.1.1"

\* C1: when the document's version is a known version earlier than the
\* target, migrate returns migrated: true and a document whose spec_version
\* is the target version, no earlier and no later one.
C1_MigrateReachesTarget ==
    (/\ migrateReturned
     /\ indexOf(sourceVersion) # 0
     /\ indexOf(sourceVersion) < indexOf(targetVersion))
    => /\ result.migrated
       /\ extractVersion(result.document.spec_version) = targetVersion

\* C2: migrate from s to a later t invokes exactly one step function for
\* each version from s up to the one before t, in the registry's order, and
\* each runs on a document of the version it is written for.
C2_StepsInOrderOnOwnVersion ==
    op = "migrate" =>
        /\ \A i \in DOMAIN calls : calls[i].on = stepSource(calls[i].fn)
        /\ (pc = "done" /\ indexOf(sourceVersion) # 0
                /\ indexOf(sourceVersion) < indexOf(targetVersion))
           => /\ Len(calls) = indexOf(targetVersion) - indexOf(sourceVersion)
              /\ \A i \in DOMAIN calls : calls[i].on = versions[indexOf(sourceVersion) + i - 1]

C4_MigratedIffChanged ==
    migrateReturned
    => (result.migrated <=>
            (calls # <<>> /\ (result.document # document \/ meta # inputMeta)))

\* C5: migrate and every step function leave the caller's document as it
\* was, its meta object included: no key of it is added, deleted or
\* rewritten.  (The top-level object and the entries are copied before any
\* write; meta is the object the copies share.)
C5_InputUntouched ==
    pc \in {"loop", "done", "threw"} => meta = inputMeta

\* a document without its provenance stamp
withoutStamp(doc) == Del(Del(doc, "x_migration"), "x_migrated_at")

\* the steps one after the other, each on what the one before returned
stepwise(doc, m, now, uuid) ==
    LET to110 == migrateFrom_1_0_0_v110(doc, m, now, uuid)
    IN  migrateFrom_1_1_1(migrateFrom_1_1_0_to_1_1_1(to110.doc), to110.meta, now)

\* C6: for a v1.0.0 document, migrate yields the document that migrating
\* to 1.1.0, then to 1.1.1, then to 1.2.0 yields, at every field but the
\* provenance stamp (for some outcome of the clock and the UUID generator).
C6_ChainEqualsStepwise ==
    (migrateReturned /\ sourceVersion = "1.0.0")
    => \E now \in Times, uuid \in UUIDs :
           LET s == stepwise(document, inputMeta, now, uuid)
           IN  /\ ~s.threw
               /\ withoutStamp(result.document) = withoutStamp(s.doc)
               /\ meta = s.meta

\* C7: migrating a v1.0.0 document returns migrated: true and a document
\* with a document_id (the input's when it had one) in which every entry
\* that had content_format plain_text has text/plain.
C7_DocumentIdAndFormat ==
    (migrateReturned /\ sourceVersion = "1.0.0")
    => /\ result.migrated
       /\ Has(result.document, "document_id")
       /\ Has(document, "document_id")
              => result.document.document_id = document.document_id
       /\ \A i \in DOMAIN document.entries :
              document.entries[i].content_format = "plain_text"
                  => result.document.entries[i].content_format = "text/plain"

\* The document a step function is given and the one it returns, in a step
\* of the model that invokes the function fn.
invokes(fn) == calls' # calls /\ calls'[Len(calls')].fn = fn /\ pc' # "threw"

given == IF op' = "migrate" THEN migratedDoc ELSE current

returned == IF op' = "migrate" THEN migratedDoc' ELSE result'.document

coreFields == {"entry_id", "type", "mode", "content_format", "content"}

relocated ==
    { <<"summary", "x_summary">>, <<"moods", "x_moods">>, <<"tags", "x_tags">>,
      <<"entities", "x_entities">>, <<"end_date", "x_end_date">>,
      <<"created_at", "x_created_at">> }

movedTo(from, old, to, new) ==
    Has(from, old) => /\ Has(to, new)
                      /\ to[new] = from[old]
                      /\ ~Has(to, old)

untargeted == {"x_app", "x_device", "x_relations", "x_due_date", "x_color"}

kept(from, to) ==
    \A k \in untargeted : Has(from, k) => Has(to, k) /\ to[k] = from[k]

C10_TimestampToCreatedAt ==
    [][(invokes("migrateFrom_1_1_0_to_1_1_1") \/ invokes("migrateToV111"))
       => /\ ~Has(returned, "timestamp")
          /\ returned.spec_version = "nalt-protocol/1.1.1"
          /\ Len(returned.entries) = Len(given.entries)
          /\ \A i \in DOMAIN given.entries :
                LET before == given.entries[i]
                    after == returned.entries[i]
                IN  /\ Has(before, "created_at")
                        => Has(after, "created_at") /\ after.created_at = before.created_at
                    /\ (~Has(before, "created_at") /\ Has(given, "timestamp"))
                        => Has(after, "created_at") /\ after.created_at = given.timestamp
                    /\ (~Has(before, "created_at") /\ ~Has(given, "timestamp"))
                        => ~Has(after, "created_at")]_vars

C10_Witness ==
    /\ op \in {"migrateFrom_1_1_0_to_1_1_1", "migrateToV111"}
    /\ pc = "done"
    /\ Len(calls) = 1
    /\ Has(document, "timestamp")
    /\ ~Has(result.document, "timestamp")
    /\ \E i, j \in DOMAIN document.entries :
          /\ ~Has(document.entries[i], "created_at")
          /\ result.document.entries[i].created_at = document.timestamp
          /\ Has(document.entries[j], "created_at")
          /\ result.document.entries[j].created_at = document.entries[j].created_at
          /\ document.entries[j].created_at # document.timestamp

\* the stamp a step function writes when it runs at a time
stampOf(fn, at) ==
    [from_version |-> IF fn = "migrateFrom_1_0_0" THEN "1.0.0" ELSE "1.1.1",
     to_version |-> "1.2.0", migrated_at |-> at]

\* C11: after a migrate of two or more steps the returned document carries
\* one provenance stamp, the one the last applied step wrote at its own
\* time; the stamp an earlier step wrote is gone.
C11_OnlyLastStamp ==
    (migrateReturned /\ Len(calls) >= 2)
    => LET last == calls[Len(calls)]
       IN  /\ Has(result.document, "x_migration")
           /\ result.document.x_migration = stampOf(last.fn, last.at)
           /\ ~Has(result.document, "x_migrated_at")

C11_Witness ==
    /\ migrateReturned
    /\ Len(calls) = 2
    /\ calls[1].at # calls[2].at
    /\ result.document.x_migration.migrated_at = calls[2].at

\* C12: migrate on a document whose spec_version names no version of the
\* registry fails and returns no result: no document and no migrated: true.
C12_UnknownVersionFails ==
    (op = "migrate" /\ indexOf(sourceVersion) = 0)
    => /\ pc # "done"
       /\ ~Has(result, "document")
       /\ ~Has(result, "migrated")

\* C13: when a step of migrate fails, migrate returns no document, no
\* later step runs, and the caller's input is as it was before the call:
\* the document and the meta object it refers to.
C13_FailureLeavesInputUntouched ==
    (op = "migrate" /\ pc = "threw")
    => /\ ~Has(result, "document")
       /\ ~ENABLED migrate_step
       /\ meta = inputMeta

(***************************************************************************)
(* Claims about validation                                                 *)
(***************************************************************************)
validators ==
    {"validate", "validate_v110", "validateNALTProtocol", "validateNALTProtocol_v110",
     "validatePersonalProtocol"}

\* a validator has answered
validated == op \in validators /\ pc \in {"done", "exit"}

\* the version a validator validates at
validatedAt ==
    CASE op = "validate" -> "1.1.1"
      [] op = "validate_v110" -> "1.1.0"
      [] op = "validatePersonalProtocol" -> "1.0.0"
      [] op \in {"validateNALTProtocol", "validateNALTProtocol_v110"} ->
             (CASE calls[1].version = "v1.0.0" -> "1.0.0"
                [] calls[1].version = "v1.1.0" -> "1.1.0"
                [] calls[1].version = "v1.1.1" -> "1.1.1"
                [] calls[1].version = "v1.2.0" -> "1.2.0")

errorsOf(r) == IF Has(r, "errors") THEN r.errors ELSE <<>>

pathOf(error) == IF "path" \in DOMAIN error THEN error.path ELSE error.instancePath

\* some error of the answer is at one of the paths
reportedAt(paths) ==
    \E n \in DOMAIN errorsOf(result) : pathOf(errorsOf(result)[n]) \in paths

theEntryIds == { document.entries[i].entry_id : i \in DOMAIN document.entries }

distinctIds ==
    \A i, j \in DOMAIN document.entries :
        i # j => document.entries[i].entry_id # document.entries[j].entry_id

fiveMimeValues ==
    {"text/plain", "text/markdown", "text/html", "application/json", "text/org"}

badEnums(entry) ==
    Cardinality({ k \in {"type", "mode", "content_format"} :
                    \/ k = "type" /\ entry.type \notin {"event", "reflection", "task", "idea", "log"}
                    \/ k = "mode" /\ entry.mode \notin {"morning", "afternoon", "evening", "night", "none"}
                    \/ k = "content_format" /\ entry.content_format \notin fiveMimeValues })

\* an intensity in [0, 1] that is a whole number of hundredths
goodIntensity(intensity) == intensity >= 0 /\ intensity <= 1000 /\ intensity % 10 = 0

badIntensities(entry) ==
    IF Has(entry, "moods")
    THEN Cardinality({ j \in DOMAIN entry.moods : ~goodIntensity(entry.moods[j].intensity) })
    ELSE 0

danglingAt(i, j) ==
    /\ Has(document.entries[i], "x_relations")
    /\ j \in DOMAIN document.entries[i].x_relations
    /\ document.entries[i].x_relations[j].target_id \notin theEntryIds

danglingRelations(i) ==
    IF Has(document.entries[i], "x_relations")
    THEN Cardinality({ j \in DOMAIN document.entries[i].x_relations : danglingAt(i, j) })
    ELSE 0

RECURSIVE defectsUpTo(_)
defectsUpTo(i) ==
    IF i = 0 THEN 0
    ELSE defectsUpTo(i - 1) + badEnums(document.entries[i])
         + badIntensities(document.entries[i]) + danglingRelations(i)

\* the document is one of the validator's version and sound but for bad
\* enums, bad intensities and dangling relations in its entries
soundButForEntries ==
    /\ extractVersion(document.spec_version) = validatedAt
    /\ Has(document, "document_id")
    /\ ~Has(document, "end_date")
    /\ inputMeta.language \in {"en", "ja"}
    /\ document.entries # <<>>
    /\ distinctIds
    /\ \A i \in DOMAIN document.entries :
          Has(document.entries[i], "end_date")
              => ~stringLess(document.entries[i].end_date, document.date)

\* C14: for a document with K independent defects of mixed kinds (bad
\* enums, bad intensities, dangling relation targets) validate answers
\* valid: false with exactly K errors, and valid: true only when K is 0.
C14_ExactlyKErrors ==
    (validated /\ validatedAt \in {"1.1.0", "1.1.1"} /\ soundButForEntries)
    => LET K == defectsUpTo(Len(document.entries))
       IN  /\ result.valid <=> K = 0
           /\ Len(errorsOf(result)) = K

\* a v1.2.0 document with every required field, enum values in its entries
\* and nothing but the five core fields and x_ fields
slimCore ==
    /\ document.spec_version = "nalt-protocol/1.2.0"
    /\ Has(document, "document_id")
    /\ ~Has(document, "end_date")
    /\ inputMeta.language \in {"en", "ja"}
    /\ Has(inputMeta, "timezone")
    /\ document.entries # <<>>
    /\ distinctIds
    /\ \A i \in DOMAIN document.entries :
          /\ badEnums(document.entries[i]) = 0
          /\ danglingRelations(i) = 0
          /\ DOMAIN document.entries[i]
                 \subseteq {"entry_id", "type", "mode", "content_format", "content",
                            "x_moods", "x_relations"}

\* C15: validate accepts every such v1.2.0 document, with or without x_
\* fields: valid is true and there are no errors.
C15_AcceptsSlimCore ==
    (/\ validated
     /\ op = "validate" \/ (op = "validateNALTProtocol" /\ validatedAt = "1.2.0")
     /\ slimCore)
    => /\ result.valid
       /\ errorsOf(result) = <<>>

\* where an error about the j-th relation of the i-th entry is located
relationPointer(i, j) == "/entries/" \o Idx(i) \o "/x_relations/" \o Idx(j)

\* the paths at which an error about some relation's target may be:
\* located by position, or by the entry's id
relationPaths ==
    { relationPointer(i, j) : i \in 1..(MaxValidated + 1), j \in 1..2 }
    \cup { "/entries/" \o id \o "/x_relations" : id \in theEntryIds }

\* C16: NALTValidator.validate answers valid: false with an error located
\* at entry index i and relation index j for every relation whose target_id
\* is no entry_id of the document, and reports no such error when every
\* target resolves.
C16_DanglingLocatedByPosition ==
    (op \in {"validate", "validate_v110"} /\ pc = "done")
    => /\ \A i \in DOMAIN document.entries : \A j \in 1..2 :
              danglingAt(i, j)
                  => ~result.valid /\ reportedAt({relationPointer(i, j)})
       /\ (\A i \in DOMAIN document.entries : danglingRelations(i) = 0)
              => ~reportedAt(relationPaths)

endDatePaths(i) ==
    { "/entries/" \o Idx(i) \o "/end_date",
      "/entries/" \o document.entries[i].entry_id \o "/end_date" }

\* C17: at 1.1.0 and 1.1.1 validate reports a violation for every entry
\* whose end_date is earlier than the document's date and none for an entry
\* whose end_date is the date or later.
C17_EntryEndDateChecked ==
    (/\ op \in {"validate", "validate_v110"}
     /\ pc = "done"
     /\ extractVersion(document.spec_version) = validatedAt)
    => \A i \in DOMAIN document.entries :
          Has(document.entries[i], "end_date")
          => IF stringLess(document.entries[i].end_date, document.date)
             THEN ~result.valid /\ reportedAt(endDatePaths(i))
             ELSE ~reportedAt(endDatePaths(i))

\* C18: a document a validator accepts, at any version, has at least one
\* entry and no two entries with the same entry_id.
C18_AcceptedHaveDistinctEntries ==
    (validated /\ result.valid)
    => /\ document.entries # <<>>
       /\ distinctIds

contentFormatPath(i) == "/entries/" \o Idx(i) \o "/content_format"

outsideFive(i) == document.entries[i].content_format \notin fiveMimeValues

\* C19: at 1.1.0 and every later version a document is rejected when some
\* entry's content_format is outside the five MIME values, and no error is
\* about content_format when every entry uses one of the five; at 1.0.0 no
\* content_format string is an error.
C19_ContentFormatEnum ==
    validated
    => IF validatedAt = "1.0.0"
       THEN ~reportedAt({ contentFormatPath(i) : i \in DOMAIN document.entries })
       ELSE /\ (\E i \in DOMAIN document.entries : outsideFive(i)) => ~result.valid
            /\ \A i \in DOMAIN document.entries :
                  ~outsideFive(i) => ~reportedAt({contentFormatPath(i)})
            /\ op \in {"validate", "validate_v110"}
                  => \A i \in DOMAIN document.entries :
                        outsideFive(i) => reportedAt({contentFormatPath(i)})

C19_Witness ==
    /\ op = "validate_v110"
    /\ pc = "done"
    /\ ~result.valid
    /\ Len(result.errors) = 1
    /\ \E i \in DOMAIN document.entries :
          /\ document.entries[i].content_format = "plain_text"
          /\ result.errors[1].instancePath = contentFormatPath(i)
          /\ result.errors[1].keyword = "enum"
    /\ \E i \in DOMAIN document.entries : document.entries[i].content_format = "text/plain"

intensityPath(i, j) == "/entries/" \o Idx(i) \o "/moods/" \o Idx(j) \o "/intensity"

\* C20: at 1.1.0 and 1.1.1 validate accepts a mood exactly when its
\* intensity is in [0, 1] and a whole number of hundredths.
C20_IntensityPrecision ==
    (op \in {"validate", "validate_v110"} /\ pc = "done")
    => \A i \in DOMAIN document.entries :
          Has(document.entries[i], "moods")
          => \A j \in DOMAIN document.entries[i].moods :
                ~reportedAt({intensityPath(i, j)})
                    <=> goodIntensity(document.entries[i].moods[j].intensity)

(***************************************************************************)
(* Claims about fields the schemas do not name, and about warnings         *)
(***************************************************************************)
\* the schema a validator validated against
theSchema ==
    CASE op = "validate" -> loadSchema
      [] op = "validate_v110" -> loadSchema_v110
      [] op = "validatePersonalProtocol" -> schema_v100
      [] op \in {"validateNALTProtocol", "validateNALTProtocol_v110"} ->
             schemaFile(calls[1].version)

\* the keys of an object that are not among the named ones and that carry
\* the x_ prefix (prefixed) or do not carry it (~prefixed)
unnamed(o, named, prefixed) ==
    { k \in DOMAIN o : k \notin named /\ (matches_x_(k) <=> prefixed) }

without(o, keys) == [k \in (DOMAIN o) \ keys |-> o[k]]

topLevelNamed ==
    {"spec_version", "document_id", "date", "meta", "entries", "timestamp", "signature",
     "end_date"}

\* an entry without its unnamed fields of the one kind; without the x_
\* kind, its moods and relations are without theirs too
bareEntry(entry, prefixed) ==
    LET e1 == without(entry, unnamed(entry, theSchema.entryProperties, prefixed))
        bareAll(list, named) ==
            [j \in DOMAIN list |-> without(list[j], unnamed(list[j], named, TRUE))]
        e2 == IF prefixed /\ Has(e1, "moods")
              THEN Put(e1, "moods", bareAll(e1.moods, {"type", "intensity"}))
              ELSE e1
    IN  IF prefixed /\ Has(e2, "x_relations")
        THEN Put(e2, "x_relations", bareAll(e2.x_relations, {"type", "target_id"}))
        ELSE e2

\* the document without the unnamed fields of the one kind: in its entries,
\* and for the x_ kind at its top level as well
bareDocument(doc, prefixed) ==
    LET d == Put(doc, "entries", [i \in DOMAIN doc.entries |-> bareEntry(doc.entries[i], prefixed)])
    IN  IF prefixed THEN without(d, unnamed(d, topLevelNamed, TRUE)) ELSE d

bareMeta(m, prefixed) == without(m, unnamed(m, theSchema.metaProperties, prefixed))

\* what the validator that answered answers on another document
answerOn(doc, m) ==
    IF op \in {"validate", "validate_v110"}
    THEN validate(theSchema, doc, m)
    ELSE IF ajvErrors(theSchema, doc, m) = <<>>
         THEN [valid |-> TRUE]
         ELSE [valid |-> FALSE, errors |-> <<Head(ajvErrors(theSchema, doc, m))>>]

theAnswer == IF Has(result, "warnings") THEN without(result, {"warnings"}) ELSE result

hasUnknownField ==
    \/ unnamed(inputMeta, theSchema.metaProperties, FALSE) # {}
    \/ \E i \in DOMAIN document.entries :
           unnamed(document.entries[i], theSchema.entryProperties, FALSE) # {}

hasExtensionField ==
    \/ bareDocument(document, TRUE) # document
    \/ bareMeta(inputMeta, TRUE) # inputMeta

timestampWarnings == {"'timestamp' field is strongly recommended but missing"}

precisionWarnings ==
    { "Mood intensity should use 0.01 precision (entry " \o Idx(i) \o ")" :
        i \in 1..(MaxValidated + 1) }

moodTypeWarnings ==
    { "Mood type '" \o type \o tail :
        type \in {"fearful", "peaceful"},
        tail \in {"' is not in the list of 20 predefined mood types",
                  "' is not in recommended list"} }

warningsOf(r) == IF Has(r, "warnings") THEN r.warnings ELSE <<>>

warned(texts) == \E n \in DOMAIN warningsOf(result) : warningsOf(result)[n] \in texts

theMoods ==
    { document.entries[i].moods[j] :
        i \in { x \in DOMAIN document.entries : Has(document.entries[x], "moods") },
        j \in 1..1 }

\* C22: with warnings asked for, a document that passes the schema of
\* v1.1.0 or v1.1.1 gets a warning for a missing timestamp, one for a mood
\* type outside the vocabulary of 20 and one for an intensity that is not a
\* whole number of hundredths, and valid is what the schema alone decides;
\* at v1.0.0 and v1.2.0 there is no warning.
C22_AdvisoryWarnings ==
    (validated /\ op \in {"validateNALTProtocol", "validateNALTProtocol_v110"}
        /\ calls[1].checkWarnings)
    => /\ result.valid <=> ajvErrors(theSchema, document, inputMeta) = <<>>
       /\ IF validatedAt \in {"1.1.0", "1.1.1"}
          THEN result.valid =>
               /\ ~Has(document, "timestamp") => warned(timestampWarnings)
               /\ (\E mood \in theMoods : mood.type \notin validMoods)
                      => warned(moodTypeWarnings)
               /\ (\E mood \in theMoods : mood.intensity % 10 # 0)
                      => warned(precisionWarnings)
          ELSE warningsOf(result) = <<>>

(***************************************************************************)
(* Claims about the three content_format normalizations                    *)
(***************************************************************************)
normalizers == {"migrateFrom_1_0_0_v110", "formatMapping", "migrate_nalt_v1_0_to_v1_1"}

\* the document a normalizer was given and the one it leaves, in a step
before == document

after == IF op' = "migrateFrom_1_0_0_v110" THEN result'.document ELSE document'

\* the table of the specification, for the values it names and for a value
\* that is neither named nor one of the five MIME values
normalized(format) ==
    CASE format = "plain_text" -> "text/plain"
      [] format \in {"markdown", "md"} -> "text/markdown"
      [] format = "html" -> "text/html"
      [] format = "json" -> "application/json"
      [] format = "org" -> "text/org"
      [] OTHER -> "text/plain"

\* C23: each of the three implementations of the 1.0.0 -> 1.1.0
\* content_format normalization maps plain_text, markdown, md, html, json
\* and org as the table says and a value it does not know to text/plain,
\* and on every input value, the five MIME values among them, it returns
\* what the other two return.
C23_NormalizersAgree ==
    [][(pc = "idle" /\ op' \in normalizers /\ pc' = "done")
       => \A i \in DOMAIN before.entries :
             LET entry == before.entries[i]
                 format == after.entries[i].content_format
             IN  /\ entry.content_format \notin fiveMimeValues
                        => format = normalized(entry.content_format)
                 /\ format = updateContentFormat(entry).content_format
                 /\ format = formatMapping_entry(entry).content_format
                 /\ format = format_map_entry(entry).content_format]_vars

(***************************************************************************)
(* Claims about the two implementations of the 1.1.1 -> 1.2.0 step         *)
(***************************************************************************)
\* what the other implementation returns for the document a step was given
counterpart ==
    IF op' = "migrate_document"
    THEN migrateFrom_1_1_1(given, meta, CHOOSE now \in Times : TRUE).doc
    ELSE migrate_document(given, meta, CHOOSE now \in PyTimes : TRUE).doc

sameEntryKeys(a, b) ==
    /\ Len(a.entries) = Len(b.entries)
    /\ \A i \in DOMAIN a.entries : a.entries[i] = b.entries[i]

\* C24: on a v1.1.1 document the step of NALTMigrator and the Python
\* migrate_document return the same document but for the time in the
\* stamp: the same keys with the same values at the document, in meta and
\* in every entry, a top-level x_migrated_at among them.
C24_ScriptEqualsStep ==
    [][((invokes("migrateFrom_1_1_1") \/ invokes("migrate_document")) /\ op' # "migrate")
       => /\ Has(returned, "x_migrated_at")
          /\ DOMAIN returned = DOMAIN counterpart
          /\ \A k \in (DOMAIN returned) \ {"x_migrated_at", "x_migration", "entries"} :
                 k \in DOMAIN counterpart => returned[k] = counterpart[k]
          /\ sameEntryKeys(returned, counterpart)]_vars

\* the value under a key of the given object is under some key of the
\* returned one
survives(from, key, to) == \E k \in DOMAIN to : to[k] = from[key]

\* C29: when a v1.1.1 input has a legacy field and a value under the x_
\* name the field is moved to (summary and x_summary in an entry, signature
\* and x_signature, meta.x_utc_offset_minutes and a top-level
\* x_utc_offset_minutes), the document the 1.1.1 -> 1.2.0 step returns
\* still holds the value the input had under the x_ name.
C29_ExistingExtensionKept ==
    [][((invokes("migrateFrom_1_1_1") \/ invokes("migrate_document")) /\ op' # "migrate")
       => /\ (Has(given, "signature") /\ Has(given, "x_signature"))
                 => survives(given, "x_signature", returned)
          /\ (Has(meta, "x_utc_offset_minutes") /\ Has(given, "x_utc_offset_minutes"))
                 => survives(given, "x_utc_offset_minutes", returned)
          /\ \A i \in DOMAIN given.entries : \A f \in relocated :
                 (Has(given.entries[i], f[1]) /\ Has(given.entries[i], f[2]))
                     => survives(given.entries[i], f[2], returned.entries[i])]_vars

(***************************************************************************)
(* Claims about validateBatch                                              *)
(***************************************************************************)
occurrences(seq, Test(_)) == Cardinality({ n \in DOMAIN seq : Test(seq[n]) })

inFlight == { w \in DOMAIN workers : workers[w].pc = "validateSingle" }

\* how often a document is in the queue, with a worker, and recorded
queued(doc) == occurrences(queue, LAMBDA d : d = doc)

validating(doc) == Cardinality({ w \in inFlight : workers[w].doc = doc })

recorded(doc) ==
    occurrences(bulkResults, LAMBDA r : r.id = doc.document_id)
    + occurrences(bulkErrors, LAMBDA r : r.id = doc.document_id)

allFinished == \A w \in DOMAIN workers : workers[w].pc = "finished"

\* C25: in validateBatch, under every interleaving of the workers, every
\* input document is at any moment in exactly one place (still queued,
\* with one worker, or recorded once), no more than `parallel` validations
\* are in flight, and when all workers have finished without failFast every
\* document is recorded once, so results plus errors count the inputs.
C25_EachDocumentOnce ==
    batchPromise # "none"
    => /\ \A n \in DOMAIN documents :
              queued(documents[n]) + validating(documents[n]) + recorded(documents[n]) = 1
       /\ Cardinality(inFlight) <= options.parallel
       /\ (allFinished /\ ~options.failFast)
              => /\ queue = <<>>
                 /\ \A n \in DOMAIN documents : recorded(documents[n]) = 1
                 /\ Len(bulkResults) + Len(bulkErrors) = Len(documents)

C25_Witness ==
    /\ batchPromise # "none"
    /\ allFinished
    /\ ~options.failFast
    /\ options.parallel = MaxParallel
    /\ Len(documents) = MaxDocuments
    /\ bulkResults # <<>>
    /\ bulkErrors # <<>>
    /\ Len(bulkResults) + Len(bulkErrors) = MaxDocuments

\* C26: with failFast, once a validation has failed no worker takes a
\* further document from the queue, and a validation that was in flight
\* at that moment is not cut short: its worker stays at its await until
\* the validation ends.
C26_FailFastStopsDequeuing ==
    [][(batchPromise # "none" /\ options.failFast /\ bulkErrors # <<>>)
       => /\ queue' = queue
          /\ \A w \in inFlight :
                 \/ workers'[w] = workers[w]
                 \/ Len(bulkResults') + Len(bulkErrors') > Len(bulkResults) + Len(bulkErrors)]_vars

(***************************************************************************)
(* Claims about PDPCache                                                   *)
(***************************************************************************)
cached(c) == { c[n] : n \in DOMAIN c }

\* the place in the log of the last time get returned the document
lastUse(id) ==
    IF \E n \in DOMAIN served : served[n] = id
    THEN CHOOSE n \in DOMAIN served : served[n] = id /\ \A k \in DOMAIN served : served[k] = id => k <= n
    ELSE 0

evicted == cached(memoryCache) \ cached(memoryCache')

\* C27: whenever addToMemoryCache evicts, the evicted document is the
\* least recently used one, a memory-cache hit in get counting as a use:
\* no document that stays cached was last returned by get before the
\* evicted one was.
C27_EvictsLeastRecentlyUsed ==
    [][\A gone \in evicted :
          \A stays \in cached(memoryCache) \ {gone} : lastUse(stays) >= lastUse(gone)]_vars

(***************************************************************************)
(* Claims about NALTBatchMigrator                                          *)
(***************************************************************************)
overwritten(f) ==
    disk[f].content \in {"migrated document", "part of the migrated document"}

fileErrors(f) == { n \in DOMAIN batchStats.errors : batchStats.errors[n].file = f }

threwBeforeWriting(f) ==
    \E n \in fileErrors(f) : batchStats.errors[n].error \in {"readFile", "JSON.parse", "migrate"}

stepFunctions ==
    {"migrateFrom_1_0_0", "migrateFrom_1_0_0_v110", "migrateFrom_1_1_0",
     "migrateFrom_1_1_0_to_1_1_1", "migrateToV111", "migrateFrom_1_1_1"}

\* valid under the schema of the version the document names
accepted(doc, m) == ajvErrors(schemaOf(doc), doc, m) = <<>>

hundredthsInRange(entry) ==
    Has(entry, "moods")
    => \A j \in DOMAIN entry.moods :
          /\ entry.moods[j].intensity % 10 = 0
          /\ entry.moods[j].intensity >= 0
          /\ entry.moods[j].intensity <= 1000

\* C28: every step function, given a document that the schema of its
\* source version accepts, returns a document that the schema of the
\* version it has written accepts; after a 1.0.0 step the document has a
\* document_id, every content_format is one of the five MIME values and
\* every moods[].intensity is a whole number of hundredths in [0, 1].
C28_StepsKeepValidity ==
    [][\A fn \in stepFunctions :
          (invokes(fn) /\ extractVersion(given.spec_version) = stepSource(fn)
              /\ accepted(given, meta))
          => /\ accepted(returned, meta')
             /\ stepSource(fn) = "1.0.0"
                   => /\ Has(returned, "document_id")
                      /\ \A i \in DOMAIN returned.entries :
                             /\ returned.entries[i].content_format \in fiveMimeValues
                             /\ hundredthsInRange(returned.entries[i])]_vars

====
